---- MODULE Spec2Model ----
(***************************************************************************)
(* A model of github.com/xenking/zipstream: the streaming ZIP reader       *)
(* (reader.go), the central-directory skipper (centralDirectory.go) and    *)
(* the decompressor registry and flate pool (stolen.go).                   *)
(*                                                                         *)
(* Bytes are the integers 0..255 and the input is a sequence of bytes.     *)
(* TLC's integers are 32-bit signed, so a uint32 or uint64 field is kept   *)
(* as its little-endian byte tuple (the same information as the integer)   *)
(* and is turned into a number only where the code does arithmetic on it   *)
(* and the value fits.                                                     *)
(***************************************************************************)
EXTENDS Integers, Sequences, FiniteSets, TLC

VARIABLES
    \* ---- one Reader session over one input (reader.go) ----
    plan,       \* ghost: how the input was put together (never read by the code)
    input,      \* every byte the underlying io.Reader will deliver
    pos,        \* bytes consumed from r.br so far
    rd,         \* r.Reader: NoReader (nil) or the open pipeline
    rdecomp,    \* r.decompressors: the session's override table
    lastNext,   \* what the last Next call returned
    hist,       \* ghost: what every Next call so far returned
    lastRead,   \* what the last Read call returned
    nextCalls,  \* number of Next calls made
    \* ---- the process-wide registry and its users (stolen.go, reader.go) ----
    decompressors, \* the package-level sync.Map, method -> constructor
    sessTab,       \* per session: r.decompressors
    regLog,        \* ghost: per table and method id, the registrations made
    lookLog,       \* ghost: the lookup made since the last registration, if any
    \* ---- the flate pool and pooledFlateReader (stolen.go) ----
    pool,       \* flateReaderPool: decoder -> number of times it is in the free list
    fr,         \* per pooledFlateReader: its fr field, a decoder or 0 (nil)
    mu,         \* per pooledFlateReader: the goroutine holding mu, or 0
    pc,         \* per goroutine: where it is
    tgt,        \* per goroutine: the pooledFlateReader it is working on, or 0
    got,        \* per goroutine: the decoder it took from the pool or reads through
    rret,       \* per goroutine: what its last Read returned
    puts,       \* ghost: per pooledFlateReader, the Puts its Closes made
    made,       \* number of decoders flate.NewReader has made
    closedDone  \* ghost: per pooledFlateReader, a Close has returned

streamVars == <<plan, input, pos, rd, rdecomp, lastNext, hist, lastRead, nextCalls>>
regVars    == <<decompressors, sessTab, regLog, lookLog>>
poolVars   == <<pool, fr, mu, pc, tgt, got, rret, puts, made, closedDone>>
vars       == <<streamVars, regVars, poolVars>>

Nil == "nil"
\* a nil *zip.FileHeader
NilHeader == [nil |-> TRUE]

\* ------------------------------------------------------------------------
\* Bounds of the model
\* ------------------------------------------------------------------------
MaxEntries == 2      \* entries per generated archive
MaxNoise   == 4      \* length of a garbage preamble / of trailing bytes
MaxCalls   == 4      \* Next calls per session
MaxComment == 2      \* length of the end record's comment
MaxSessions == 2     \* sessions with an override table of their own
MaxRegs    == 3      \* registrations, process-wide and session-scoped together
MaxProcs   == 2      \* goroutines using the pool
MaxReaders == 2      \* pooledFlateReaders made by newFlateReader
MaxInstances == 2    \* decoders made by flate.NewReader
MaxExtras  == 2      \* records in the extra field of a generated header
MaxSteps   == 8      \* iterations of the loops of one call of Next followed

\* ------------------------------------------------------------------------
\* Program constants (stolen.go:23-51, reader.go:17-21)
\* ------------------------------------------------------------------------
Store   == 0
Deflate == 8
fileHeaderSignature      == 67324752    \* 0x04034b50
directoryHeaderSignature == 33639248    \* 0x02014b50
directoryEndSignature    == 101010256   \* 0x06054b50
directory64LocSignature  == 117853008   \* 0x07064b50
directory64EndSignature  == 101075792   \* 0x06064b50
dataDescriptorSignature  == 134695760   \* 0x08074b50
fileHeaderLen == 30
zip64ExtraID  == 1
ntfsExtraID        == 10      \* 0x000a
unixExtraID        == 13      \* 0x000d
extTimeExtraID     == 21589   \* 0x5455
infoZipUnixExtraID == 22613   \* 0x5855

\* The error values the code returns.
NoErr            == "nil"
EOF              == "io.EOF"
ErrUnexpectedEOF == "io.ErrUnexpectedEOF"
ErrFormat        == "zip.ErrFormat"
ErrAlgorithm     == "zip.ErrAlgorithm"
ErrChecksum      == "zip.ErrChecksum"
ErrSizeOverflow  == "discardDirectory64End: size overflow"
ErrCorrupt       == "flate.CorruptInputError"
ErrReadAfterClose == "Read after Close"
PanicNilReader   == "panic: nil pointer dereference"
PanicIndex       == "panic: index out of range"

\* ------------------------------------------------------------------------
\* Bytes and little-endian fields (encoding/binary, stolen.go readBuf)
\* ------------------------------------------------------------------------
Byte == 0..255

Take(s, n) == SubSeq(s, 1, n)
Drop(s, n) == SubSeq(s, n + 1, Len(s))
Min(a, b) == IF a < b THEN a ELSE b

\* n as k little-endian bytes (binary.LittleEndian.PutUintNN), n < 2^31
RECURSIVE LE(_, _)
LE(n, k) == IF k = 0 THEN <<>> ELSE <<n % 256>> \o LE(n \div 256, k - 1)
LE16(n) == LE(n, 2)
LE32(n) == LE(n, 4)
LE64(n) == LE(n, 8)

\* binary.LittleEndian.Uint16
Uint16(b) == b[1] + 256 * b[2]

\* The number a little-endian tuple stands for, when it is below 2^24;
\* Huge otherwise. Every length of the model is far below 2^24, so a count
\* compared with Huge behaves like the real count.
Huge == 1024 * 1024 * 1024
RECURSIVE AllZero(_)
AllZero(b) == b = <<>> \/ (b[1] = 0 /\ AllZero(Drop(b, 1)))
Small(b) == IF Len(b) <= 3 \/ AllZero(Drop(b, 3))
            THEN b[1] + 256 * b[2] + 65536 * b[3]
            ELSE Huge

MaxU32 == <<255, 255, 255, 255>>      \* ^uint32(0)
\* uint64(x) of a uint32 x
Widen(b) == b \o <<0, 0, 0, 0>>

\* b + n modulo 2^(8*Len(b)), for a small n (uint64 addition wraps)
RECURSIVE AddLE(_, _)
AddLE(b, n) ==
    IF b = <<>> THEN <<>>
    ELSE LET s == b[1] + n IN <<s % 256>> \o AddLE(Drop(b, 1), s \div 256)

\* int64(x) of a uint64 x, as LimitReader uses it: 0 stands for any N <= 0
Int64Limit(b) == IF b[8] >= 128 THEN 0 ELSE Small(b)

\* ------------------------------------------------------------------------
\* hash/crc32 (IEEE), on two 16-bit halves
\* ------------------------------------------------------------------------
RECURSIVE Xor(_, _)
Xor(a, b) == IF a = 0 THEN b
             ELSE IF b = 0 THEN a
             ELSE ((a + b) % 2) + 2 * Xor(a \div 2, b \div 2)

CrcShift(c) ==
    LET hi == c[1] \div 2
        lo == (c[2] \div 2) + (c[1] % 2) * 32768
    IN IF c[2] % 2 = 1 THEN <<Xor(hi, 60856), Xor(lo, 33568)>>  \* 0xEDB88320
       ELSE <<hi, lo>>
\* the table of crc32.IEEETable: entry i is i shifted through eight bits
CrcShifted[i \in Byte, k \in 0..8] ==
    IF k = 0 THEN <<0, i>> ELSE CrcShift(CrcShifted[i, k - 1])
CrcTable == [i \in Byte |-> CrcShifted[i, 8]]
\* crc = tab[byte(crc) ^ v] ^ (crc >> 8), for every byte v of data
CrcByte(c, v) ==
    <<Xor(CrcTable[Xor(c[2] % 256, v)][1], c[1] \div 256),
      Xor(CrcTable[Xor(c[2] % 256, v)][2], (c[2] \div 256) + (c[1] % 256) * 256)>>
\* the loop over data, taken half by half so that the evaluation stays
\* shallow on long data
RECURSIVE CrcUpdate(_, _)
CrcUpdate(c, data) ==
    IF Len(data) = 0 THEN c
    ELSE IF Len(data) = 1 THEN CrcByte(c, data[1])
    ELSE CHOOSE r \in {CrcUpdate(m, Drop(data, Len(data) \div 2)) :
                          m \in {CrcUpdate(c, Take(data, Len(data) \div 2))}} : TRUE
CrcInit == <<65535, 65535>>
\* hash.Sum32() as little-endian bytes
CrcSum(c) == LE16(Xor(c[2], 65535)) \o LE16(Xor(c[1], 65535))
CRC32(data) == CrcSum(CrcUpdate(CrcInit, data))

\* ------------------------------------------------------------------------
\* bufio.Reader over the input (r.br). The buffer holds at least 4124 bytes,
\* more than any Peek of the code asks for, so Peek never reports a full
\* buffer; the input ends with io.EOF.
\* ------------------------------------------------------------------------
Avail(p) == Len(input) - p

\* br.Peek(n): the next n bytes, or the bytes left and io.EOF
Peek(p, n) ==
    IF Avail(p) >= n THEN [b |-> SubSeq(input, p + 1, p + n), err |-> NoErr]
    ELSE [b |-> Drop(input, p), err |-> EOF]

\* br.Discard(n): skips n bytes, or the bytes left and io.EOF
Discard(p, n) ==
    IF Avail(p) >= n THEN [pos |-> p + n, err |-> NoErr]
    ELSE [pos |-> Len(input), err |-> EOF]

\* io.ReadFull(br, buf) with len(buf) = n
ReadFull(p, n) ==
    IF n = 0 THEN [b |-> <<>>, pos |-> p, err |-> NoErr]
    ELSE IF Avail(p) = 0 THEN [b |-> <<>>, pos |-> p, err |-> EOF]
    ELSE IF Avail(p) < n
         THEN [b |-> Drop(input, p), pos |-> Len(input), err |-> ErrUnexpectedEOF]
    ELSE [b |-> SubSeq(input, p + 1, p + n), pos |-> p + n, err |-> NoErr]

\* ------------------------------------------------------------------------
\* readFileHeader (reader.go:93-251)
\* ------------------------------------------------------------------------
\* ------------------------------------------------------------------------
\* Timestamps (stolen.go:56-86, reader.go:179-234). An instant is
\* [days, secs, frac]: the whole days since 1601-01-01 UTC, the second of
\* that day, and whether a fraction of a second follows. A location is
\* [utc, offset]: time.UTC itself, or a zone built by time.FixedZone.
\* ------------------------------------------------------------------------
IsLeap(y) == y % 4 = 0 /\ (y % 100 # 0 \/ y % 400 = 0)
DaysBeforeYear(y) ==
    LET n == y - 1601 IN 365 * n + n \div 4 - n \div 100 + n \div 400
DaysBefore == <<0, 31, 59, 90, 120, 151, 181, 212, 243, 273, 304, 334>>

\* time.Date in UTC: values outside their ranges are normalised
Date(year, month, day, hour, min, sec) ==
    LET y == year + (month - 1) \div 12
        m == (month - 1) % 12
        d == DaysBeforeYear(y) + DaysBefore[m + 1]
             + (IF IsLeap(y) /\ m >= 2 THEN 1 ELSE 0) + day - 1
        s == hour * 3600 + min * 60 + sec
    IN [days |-> d + s \div 86400, secs |-> s % 86400, frac |-> FALSE]

\* the zero time.Time: January 1, year 1, 00:00:00 UTC
ZeroTime == Date(1, 1, 1, 0, 0, 0)
IsZero(t) == t = ZeroTime

msDosTimeToTime(dosDate, dosTime) ==
    Date(dosDate \div 512 + 1980, (dosDate \div 32) % 16, dosDate % 32,
         dosTime \div 2048, (dosTime \div 32) % 64, (dosTime % 32) * 2)

\* time.Unix(int64(ts), 0) of a uint32 ts given as its four bytes
UnixTime(b) ==
    LET q == b[1] \div 128 + 2 * b[2] + 512 * b[3] + 131072 * b[4]
    IN [days |-> DaysBeforeYear(1970) + q \div 675,
        secs |-> (q % 675) * 128 + (b[1] % 128), frac |-> FALSE]

\* quotient and remainder of a little-endian tuple by a small divisor
RECURSIVE DivBytes(_, _)
DivBytes(b, d) ==
    IF Len(b) = 0 THEN [q |-> <<>>, r |-> 0]
    ELSE CHOOSE res \in {[q |-> <<(hi.r * 256 + b[1]) \div d>> \o hi.q,
                          r |-> (hi.r * 256 + b[1]) % d] :
                            hi \in {DivBytes(Drop(b, 1), d)}} : TRUE

\* -b modulo 2^(8*Len(b))
RECURSIVE Increment(_)
Increment(b) ==
    IF Len(b) = 0 THEN <<>>
    ELSE IF b[1] = 255 THEN <<0>> \o Increment(Drop(b, 1))
    ELSE <<b[1] + 1>> \o Drop(b, 1)
Negate(b) == Increment([i \in 1..Len(b) |-> 255 - b[i]])

\* reader.go:195-200: ts := int64(uint64) ticks of 100ns since 1601; Go's
\* division truncates towards zero
NtfsTime(b) ==
    LET neg  == b[8] >= 128
        mag  == IF neg THEN Negate(b) ELSE b
        k    == DivBytes(mag, 1000)
        s    == DivBytes(k.q, 10000)
        frac == k.r # 0 \/ s.r # 0
        h    == DivBytes(s.q, 128)
        dd   == DivBytes(h.q, 675)
        D    == Small(dd.q)
        R    == dd.r * 128 + h.r
        Rn   == R + (IF frac THEN 1 ELSE 0)
    IN IF ~neg THEN [days |-> D, secs |-> R, frac |-> frac]
       ELSE IF Rn = 0 THEN [days |-> 0 - D, secs |-> 0, frac |-> FALSE]
       ELSE IF Rn = 86400 THEN [days |-> 0 - D - 1, secs |-> 0, frac |-> frac]
       ELSE [days |-> 0 - D - 1, secs |-> 86400 - Rn, frac |-> frac]

\* t.Sub(u) for a t of whole seconds: [far, neg, secs], the whole seconds of
\* the magnitude; far when the instants are two days or more apart
Sub(t, u) ==
    LET dd  == t.days - u.days
        ds  == dd * 86400 + t.secs - u.secs
        neg == ds < 0 \/ (ds = 0 /\ u.frac)
    IN IF dd > 1 \/ dd < -1 THEN [far |-> TRUE, neg |-> dd < 0, secs |-> 0]
       ELSE [far |-> FALSE, neg |-> neg,
             secs |-> IF neg THEN 0 - ds ELSE IF u.frac THEN ds - 1 ELSE ds]

UTC == [utc |-> TRUE, offset |-> 0]
FixedZone(offset) == [utc |-> FALSE, offset |-> offset]

\* stolen.go:73-86: Round(15*time.Minute) rounds halfway values away from
\* zero; offsets outside [-12h, +14h] become 0
timeZone(offset) ==
    LET rounded == (offset.secs \div 900) * 900
                   + (IF (offset.secs % 900) >= 450 THEN 900 ELSE 0)
        secs    == IF offset.neg THEN 0 - rounded ELSE rounded
    IN IF offset.far \/ secs < 0 - 12 * 3600 \/ secs > 14 * 3600
       THEN FixedZone(0)
       ELSE FixedZone(secs)

\* reader.go:218-234
Modified(ModifiedDate, ModifiedTime, modified) ==
    LET msdosModified == msDosTimeToTime(ModifiedDate, ModifiedTime)
    IN IF IsZero(modified) THEN [t |-> msdosModified, loc |-> UTC]
       ELSE IF ModifiedTime # 0 \/ ModifiedDate # 0
            THEN [t |-> modified, loc |-> timeZone(Sub(msdosModified, modified))]
       ELSE [t |-> modified, loc |-> UTC]

\* stolen.go:161-191: the reads of a readBuf (uint8, uint16, uint32, uint64,
\* sub) take the first n bytes of b and leave the rest; with fewer than n
\* bytes left the index or slice expression panics. res is the state of the
\* walk after a read that succeeds.
readBuf(b, n, st, res) ==
    IF Len(b) < n THEN [st EXCEPT !.err = PanicIndex] ELSE res

\* reader.go:179-201: the attributes of an NTFS record after its reserved
\* word; st.found records that a modify time was taken from the extras
RECURSIVE NtfsAttrs(_, _)
NtfsAttrs(fieldBuf, st) ==
    IF Len(fieldBuf) < 4 THEN st
    ELSE readBuf(fieldBuf, 4, st,
         LET attrTag  == Uint16(SubSeq(fieldBuf, 1, 2))
             attrSize == Uint16(SubSeq(fieldBuf, 3, 4))
             rest     == Drop(fieldBuf, 4)
         IN IF Len(rest) < attrSize THEN st
            ELSE readBuf(rest, attrSize, st,
                 IF attrTag # 1 \/ attrSize # 24
                 THEN NtfsAttrs(Drop(rest, attrSize), st)
                 ELSE readBuf(Take(rest, attrSize), 8, st,
                      NtfsAttrs(Drop(rest, attrSize),
                                [st EXCEPT !.modified = NtfsTime(Take(rest, 8)),
                                           !.found = TRUE]))))

\* reader.go:179-201
NtfsField(fieldBuf, st) ==
    IF Len(fieldBuf) < 4 THEN st
    ELSE readBuf(fieldBuf, 4, st, NtfsAttrs(Drop(fieldBuf, 4), st))

\* reader.go:202-208
UnixField(fieldBuf, st) ==
    IF Len(fieldBuf) < 8 THEN st
    ELSE readBuf(fieldBuf, 8, st,
                 [st EXCEPT !.modified = UnixTime(SubSeq(fieldBuf, 5, 8)),
                            !.found = TRUE])

\* an extended-timestamp branch that asks only for the flags byte
ExtTimeFieldFlagOnly(fieldBuf, st) ==
    IF Len(fieldBuf) < 1 \/ fieldBuf[1] % 2 = 0 THEN st
    ELSE readBuf(fieldBuf, 5, st,
                 [st EXCEPT !.modified = UnixTime(SubSeq(fieldBuf, 2, 5)),
                            !.found = TRUE])

\* reader.go:209-214: the flags byte is read only when five bytes are there
ExtTimeField(fieldBuf, st) ==
    IF Len(fieldBuf) < 5 \/ fieldBuf[1] % 2 = 0 THEN st
    ELSE readBuf(fieldBuf, 5, st,
                 [st EXCEPT !.modified = UnixTime(SubSeq(fieldBuf, 2, 5)),
                            !.found = TRUE])

\* reader.go:179-214: the branches of the walk that set modified
TimeField(fieldTag, fieldBuf, st) ==
    IF fieldTag = ntfsExtraID THEN NtfsField(fieldBuf, st)
    ELSE IF fieldTag \in {unixExtraID, infoZipUnixExtraID}
    THEN UnixField(fieldBuf, st)
    ELSE IF fieldTag = extTimeExtraID THEN ExtTimeField(fieldBuf, st)
    ELSE st

\* a ZIP64 branch that overwrites both sizes whenever the bytes are there
Zip64FieldAlways(st, fieldBuf) ==
    IF Len(fieldBuf) < 16
    THEN [st EXCEPT !.needUSize = FALSE, !.needCSize = FALSE,
                    !.err = IF st.needUSize \/ st.needCSize THEN ErrFormat ELSE NoErr]
    ELSE [st EXCEPT !.needUSize = FALSE, !.needCSize = FALSE,
                    !.usize = Take(fieldBuf, 8), !.csize = SubSeq(fieldBuf, 9, 16)]

\* The ZIP64 branch of the extras walk: st is [needUSize, needCSize, usize,
\* csize, err]
Zip64Field(st, fieldBuf) ==
    LET u == IF ~st.needUSize THEN [st |-> st, buf |-> fieldBuf]
             ELSE IF Len(fieldBuf) < 8
                  THEN [st |-> [st EXCEPT !.needUSize = FALSE, !.err = ErrFormat],
                        buf |-> fieldBuf]
             ELSE [st |-> readBuf(fieldBuf, 8, st,
                              [st EXCEPT !.needUSize = FALSE,
                                         !.usize = Take(fieldBuf, 8)]),
                   buf |-> Drop(fieldBuf, 8)]
    IN IF u.st.err # NoErr \/ ~u.st.needCSize THEN u.st
       ELSE IF Len(u.buf) < 8
            THEN [u.st EXCEPT !.needCSize = FALSE, !.err = ErrFormat]
       ELSE readBuf(u.buf, 8, u.st,
                    [u.st EXCEPT !.needCSize = FALSE, !.csize = Take(u.buf, 8)])

\* The walk over the extra records: tag(2) size(2) payload(size)
RECURSIVE parseExtras(_, _)
parseExtras(extra, st) ==
    IF st.err # NoErr \/ Len(extra) < 4 THEN st
    ELSE readBuf(extra, 4, st,
         LET fieldTag  == Uint16(SubSeq(extra, 1, 2))
             fieldSize == Uint16(SubSeq(extra, 3, 4))
             rest      == Drop(extra, 4)
         IN IF Len(rest) < fieldSize THEN st
            ELSE readBuf(rest, fieldSize, st,
                 IF fieldTag = zip64ExtraID
                 THEN parseExtras(Drop(rest, fieldSize),
                                  Zip64Field(st, Take(rest, fieldSize)))
                 ELSE parseExtras(Drop(rest, fieldSize),
                                  TimeField(fieldTag, Take(rest, fieldSize), st))))

\* readFileHeader in the order of the code. Each stage returns [f, pos, err]:
\* the metadata, the position after the bytes read, the error.

\* reader.go:142-250: the sizes after the extras walk st, needCSize checked
HeaderResult(buf, d, filenameLen, extra, st) ==
    IF st.err # NoErr THEN [f |-> NilHeader, pos |-> d.pos, err |-> st.err]
    ELSE IF st.needCSize THEN [f |-> NilHeader, pos |-> d.pos, err |-> ErrFormat]
    ELSE [f |-> [ReaderVersion |-> Uint16(SubSeq(buf, 5, 6)),
                 Flags  |-> Uint16(SubSeq(buf, 7, 8)),
                 Method |-> Uint16(SubSeq(buf, 9, 10)),
                 ModifiedTime |-> Uint16(SubSeq(buf, 11, 12)),
                 ModifiedDate |-> Uint16(SubSeq(buf, 13, 14)),
                 CRC32 |-> SubSeq(buf, 15, 18),
                 CompressedSize |-> SubSeq(buf, 19, 22),
                 UncompressedSize |-> SubSeq(buf, 23, 26),
                 CompressedSize64 |-> st.csize,
                 UncompressedSize64 |-> st.usize,
                 Name  |-> Take(d.b, filenameLen),
                 Extra |-> extra,
                 Modified |-> Modified(Uint16(SubSeq(buf, 13, 14)),
                                       Uint16(SubSeq(buf, 11, 12)), st.modified)],
          pos |-> d.pos, err |-> NoErr]

\* reader.go:113-114, 142-151: the walk starts from the 32-bit sizes
ExtrasStart(csize32, usize32) ==
    [needUSize |-> usize32 = MaxU32, needCSize |-> csize32 = MaxU32,
     usize |-> Widen(usize32), csize |-> Widen(csize32),
     modified |-> ZeroTime, found |-> FALSE, err |-> NoErr]
HeaderExtras(buf, d, filenameLen, extra) ==
    HeaderResult(buf, d, filenameLen, extra,
        parseExtras(extra, ExtrasStart(SubSeq(buf, 19, 22), SubSeq(buf, 23, 26))))

\* reader.go:119-123: d is the result of reading name and extra
HeaderNames(buf, d, filenameLen, extraLen) ==
    IF d.err # NoErr THEN [f |-> NilHeader, pos |-> d.pos, err |-> d.err]
    ELSE HeaderExtras(buf, d, filenameLen,
                      SubSeq(d.b, filenameLen + 1, filenameLen + extraLen))

\* reader.go:98-118: fixed is the result of reading the 30 fixed bytes
HeaderFixed(fixed, filenameLen, extraLen) ==
    IF Take(fixed.b, 4) # LE32(fileHeaderSignature)
    THEN [f |-> NilHeader, pos |-> fixed.pos, err |-> ErrFormat]
    ELSE HeaderNames(fixed.b, ReadFull(fixed.pos, filenameLen + extraLen),
                     filenameLen, extraLen)

HeaderStart(fixed) ==
    IF fixed.err # NoErr THEN [f |-> NilHeader, pos |-> fixed.pos, err |-> fixed.err]
    ELSE HeaderFixed(fixed, Uint16(SubSeq(fixed.b, 27, 28)),
                     Uint16(SubSeq(fixed.b, 29, 30)))

readFileHeader(p) == HeaderStart(ReadFull(p, fileHeaderLen))

\* ------------------------------------------------------------------------
\* The central-directory skipper (centralDirectory.go)
\* ------------------------------------------------------------------------
\* Each returns [pos, err].
discardDirectoryHeaderRecord(p) ==
    LET a == Discard(p, 28) IN
    IF a.err # NoErr THEN a
    ELSE LET lb == Peek(a.pos, 6) IN
         IF lb.err # NoErr THEN [pos |-> a.pos, err |-> lb.err]
         ELSE Discard(a.pos, 18 + Uint16(SubSeq(lb.b, 1, 2))
                                   + Uint16(SubSeq(lb.b, 3, 4))
                                   + Uint16(SubSeq(lb.b, 5, 6)))

\* an end record taken to have no comment
discardDirectoryEndRecordNoComment(p) ==
    LET a == Discard(p, 20) IN
    IF a.err # NoErr THEN a ELSE Discard(a.pos, 2)

\* an end record whose comment length field is not itself discarded
discardDirectoryEndRecordShort(p) ==
    LET a == Discard(p, 20) IN
    IF a.err # NoErr THEN a
    ELSE LET commentLength == Peek(a.pos, 2) IN
         IF commentLength.err # NoErr THEN [pos |-> a.pos, err |-> commentLength.err]
         ELSE Discard(a.pos, Uint16(commentLength.b))

discardDirectoryEndRecord(p) ==
    LET a == Discard(p, 20) IN
    IF a.err # NoErr THEN a
    ELSE LET commentLength == Peek(a.pos, 2) IN
         IF commentLength.err # NoErr THEN [pos |-> a.pos, err |-> commentLength.err]
         ELSE Discard(a.pos, 2 + Uint16(commentLength.b))

discardDirectory64End(p) ==
    LET lb == Peek(p, 12) IN
    IF lb.err # NoErr THEN [pos |-> p, err |-> lb.err]
    ELSE LET totalSize == AddLE(SubSeq(lb.b, 5, 12), 12) IN
         \* totalSize > 0x7FFFFFFF
         IF ~AllZero(Drop(totalSize, 4)) \/ totalSize[4] >= 128
         THEN [pos |-> p, err |-> ErrSizeOverflow]
         ELSE Discard(p, Small(totalSize))

discardDirectory64EndLocator(p) == Discard(p, 20)

\* One iteration of the record loop (centralDirectory.go:16-42):
\* [pos, err, ret], ret naming the return statement taken, or the top of
\* the loop when the iteration ends without returning
RecordLoop == "centralDirectory.go:16"
RecordDone(r, ret) ==
    IF r.err # NoErr THEN [pos |-> r.pos, err |-> r.err, ret |-> ret]
    ELSE [pos |-> r.pos, err |-> NoErr, ret |-> RecordLoop]
EndRecordDone(r) ==
    IF r.err # NoErr
    THEN [pos |-> r.pos, err |-> r.err, ret |-> "centralDirectory.go:28"]
    ELSE [pos |-> r.pos, err |-> EOF, ret |-> "centralDirectory.go:30"]
DirectoryIteration(p) ==
    LET sigBytes == Peek(p, 4) IN
    IF sigBytes.err # NoErr
    THEN [pos |-> p, err |-> sigBytes.err, ret |-> "centralDirectory.go:19"]
    ELSE CASE sigBytes.b = LE32(directoryHeaderSignature) ->
                RecordDone(discardDirectoryHeaderRecord(p), "centralDirectory.go:24")
           [] sigBytes.b = LE32(directoryEndSignature) ->
                EndRecordDone(discardDirectoryEndRecord(p))
           [] sigBytes.b = LE32(directory64EndSignature) ->
                RecordDone(discardDirectory64End(p), "centralDirectory.go:33")
           [] sigBytes.b = LE32(directory64LocSignature) ->
                RecordDone(discardDirectory64EndLocator(p), "centralDirectory.go:37")
           [] OTHER -> [pos |-> p, err |-> ErrFormat, ret |-> "centralDirectory.go:40"]

\* [pos, err, ret]: the loop, iteration after iteration
RECURSIVE discardCentralDirectory(_)
DirectoryContinue(it) ==
    IF it.ret = RecordLoop THEN discardCentralDirectory(it.pos) ELSE it
discardCentralDirectory(p) == DirectoryContinue(DirectoryIteration(p))

\* ------------------------------------------------------------------------
\* The registry lookups (stolen.go:151-157, reader.go:268-277). A sync.Map
\* is a function from the stored keys; a constructor is named by a string.
\* ------------------------------------------------------------------------
NopCloser      == "ioutil.NopCloser"
NewFlateReader == "newFlateReader"

\* the table init() builds (stolen.go:107-110)
BuiltIns == (Store :> NopCloser) @@ (Deflate :> NewFlateReader)

\* decompressor(method) on the table tab
decompressor(tab, method) ==
    IF method \in DOMAIN tab THEN tab[method] ELSE Nil

\* a lookup that asks the process-wide table first
ReaderDecompressorGlobalFirst(own, tab, method) ==
    LET dcomp == decompressor(tab, method)
    IN IF dcomp = Nil
       THEN (IF method \in DOMAIN own THEN own[method] ELSE Nil)
       ELSE dcomp

\* (r *Reader).decompressor(method): own is r.decompressors, a nil map and
\* an empty one both being the function of no key (a read of either yields
\* the zero value, nil)
ReaderDecompressor(own, tab, method) ==
    LET dcomp == IF method \in DOMAIN own THEN own[method] ELSE Nil
    IN IF dcomp = Nil THEN decompressor(tab, method) ELSE dcomp

\* a registration that overwrites: decompressors.Store(method, dcomp)
StoreAlways(tab, method, dcomp) ==
    [tab |-> (method :> dcomp) @@ tab, dup |-> FALSE]

\* decompressors.LoadOrStore(method, dcomp) (stolen.go:146), one atomic
\* operation of sync.Map: [tab, dup], the table afterwards and whether the
\* key was already there
LoadOrStore(tab, method, dcomp) ==
    IF method \in DOMAIN tab
    THEN [tab |-> tab, dup |-> TRUE]
    ELSE [tab |-> (method :> dcomp) @@ tab, dup |-> FALSE]

\* r.decompressors[method] = dcomp, after make() if the map was nil
\* (reader.go:262-265)
SetOwn(own, method, dcomp) == (method :> dcomp) @@ own

\* ------------------------------------------------------------------------
\* The decode pipeline of an entry (reader.go:79-89):
\*   crcReader -> dcomp(...) -> io.LimitReader(r.br, CompressedSize64)
\* ------------------------------------------------------------------------
NoReader == [open |-> FALSE]

\* compress/flate on a stream of stored blocks (BTYPE = 00), the only kind
\* the generated archives hold: [out, err], err the error that ends the
\* stream (io.EOF after the final block).
RECURSIVE Inflate(_)
Inflate(s) ==
    IF s = <<>> THEN [out |-> <<>>, err |-> ErrUnexpectedEOF]
    ELSE IF (s[1] \div 2) % 4 # 0 THEN [out |-> <<>>, err |-> ErrCorrupt]
    ELSE IF Len(s) < 5 THEN [out |-> <<>>, err |-> ErrUnexpectedEOF]
    ELSE LET n    == Uint16(SubSeq(s, 2, 3))
             nn   == Uint16(SubSeq(s, 4, 5))
             body == Drop(s, 5)
         IN IF nn # 65535 - n THEN [out |-> <<>>, err |-> ErrCorrupt]
            ELSE IF Len(body) < n THEN [out |-> body, err |-> ErrUnexpectedEOF]
            ELSE IF s[1] % 2 = 1 THEN [out |-> Take(body, n), err |-> EOF]
            ELSE LET r == Inflate(Drop(body, n))
                 IN [out |-> Take(body, n) \o r.out, err |-> r.err]

\* io.LimitedReader.Read over r.br with a buffer of k bytes: [b, N, pos, err]
LimitRead(N, p, k) ==
    IF N <= 0 \/ Avail(p) = 0 THEN [b |-> <<>>, N |-> N, pos |-> p, err |-> EOF]
    ELSE LET n == Min(k, Min(N, Avail(p)))
         IN [b |-> SubSeq(input, p + 1, p + n), N |-> N - n, pos |-> p + n,
             err |-> NoErr]

\* The pipeline Next builds for header f with constructor dcomp
\* crc, csize and usize are the fields of f the pipeline reaches through its
\* pointer; n, vhash and veof are the state of the descriptor-bounded view.
NewPipeline(f, dcomp) ==
    [open |-> TRUE, dcomp |-> dcomp, desc |-> (f.Flags \div 8) % 2 = 1,
     N |-> Int64Limit(f.CompressedSize64), crc |-> f.CRC32,
     csize |-> f.CompressedSize64, usize |-> f.UncompressedSize64,
     hash |-> CrcInit, filled |-> FALSE, out |-> <<>>, fin |-> NoErr,
     n |-> 0, vhash |-> CrcInit, veof |-> FALSE]

\* One Read of the flate reader with a buffer of k bytes, src being what its
\* bufio reader just took from the view and dec the decoded stream:
\* [rd, pos, b, err]. The last bytes come with the error that ends the
\* stream.
FlateDeliver(r, src, dec, k) ==
    [rd  |-> [r EXCEPT !.filled = TRUE, !.N = src.N,
                       !.out = Drop(dec.out, Min(k, Len(dec.out))),
                       !.fin = dec.err],
     pos |-> src.pos,
     b   |-> Take(dec.out, Min(k, Len(dec.out))),
     err |-> IF k >= Len(dec.out) THEN dec.err ELSE NoErr]

FlateFill(r, src, k) == FlateDeliver(r, src, Inflate(src.b), k)

\* The flate reader pulls its source through a bufio reader of its own: the
\* first fill takes all the view still allows.
FlateRead(r, p, k) ==
    IF r.filled
    THEN FlateDeliver(r, [N |-> r.N, pos |-> p], [out |-> r.out, err |-> r.fin], k)
    ELSE FlateFill(r, LimitRead(r.N, p, Huge), k)

\* ioutil.NopCloser (and any constructor that passes its source through)
PlainDeliver(r, src) ==
    [rd |-> [r EXCEPT !.N = src.N], pos |-> src.pos, b |-> src.b, err |-> src.err]

\* descriptorReader (reader.go:84), the view of an entry with flag 0x8. The
\* type's code is not among the repository's files: this follows the
\* specification's descriptor-bounded view. Bytes are forwarded in chunks of
\* at most MaxChunk bytes under a running CRC32; after each chunk the view
\* peeks the trailing window, with and without the signature, and accepts a
\* boundary when the window's CRC32 and compressed size both match what was
\* forwarded. The entries of the model that carry a descriptor are stored,
\* so the bytes forwarded are the bytes produced.
MaxChunk == 1

\* a window that matches on the size alone
WindowMatchesSizeOnly(win, h, n) == SubSeq(win, 5, 8) = LE32(n)

\* win: CRC32(4) compressed-size(4) uncompressed-size(4)
WindowMatches(win, h, n) ==
    /\ SubSeq(win, 1, 4) = CrcSum(h)
    /\ SubSeq(win, 5, 8) = LE32(n)

\* The descriptor at p after n bytes with running sum h: [len, win], len the
\* bytes it takes, 0 when there is none
DescriptorAt(p, h, n) ==
    LET long  == Peek(p, 16)
        short == Peek(p, 12)
    IN IF /\ long.err = NoErr
          /\ Take(long.b, 4) = LE32(dataDescriptorSignature)
          /\ WindowMatches(Drop(long.b, 4), h, n)
       THEN [len |-> 16, win |-> Drop(long.b, 4)]
       ELSE IF short.err = NoErr /\ WindowMatches(short.b, h, n)
       THEN [len |-> 12, win |-> short.b]
       ELSE [len |-> 0, win |-> <<>>]

\* the chunk src was forwarded, d is what follows it: [rd, pos, b, err]
DescriptorAccept(r, src, h, n, d) ==
    IF d.len = 0
    THEN [rd  |-> [r EXCEPT !.n = n, !.vhash = h],
          pos |-> src.pos, b |-> src.b, err |-> NoErr]
    ELSE [rd  |-> [r EXCEPT !.n = n, !.vhash = h, !.veof = TRUE,
                            !.crc = SubSeq(d.win, 1, 4),
                            !.csize = Widen(SubSeq(d.win, 5, 8)),
                            !.usize = Widen(SubSeq(d.win, 9, 12))],
          pos |-> src.pos + d.len, b |-> src.b, err |-> EOF]
DescriptorForward(r, src, h, n) ==
    DescriptorAccept(r, src, h, n, DescriptorAt(src.pos, h, n))
DescriptorChunk(r, src) ==
    DescriptorForward(r, src, CrcUpdate(r.vhash, src.b), r.n + Len(src.b))

\* One Read of the view with a buffer of k bytes; an input that ends inside
\* the entry is a read error
DescriptorRead(r, p, k) ==
    IF r.veof THEN [rd |-> r, pos |-> p, b |-> <<>>, err |-> EOF]
    ELSE IF Avail(p) = 0
    THEN [rd |-> r, pos |-> p, b |-> <<>>, err |-> ErrUnexpectedEOF]
    ELSE DescriptorChunk(r, LimitRead(Min(k, MaxChunk), p, k))

\* The reads of the view that io.Copy makes, taken together: chunk after
\* chunk up to the first chunk end where a descriptor is accepted, or to the
\* end of the input. [rd, pos, b, err], b all the bytes forwarded.
ChunkEnds(p) ==
    {q \in (p + 1)..Len(input) : (q - p) % MaxChunk = 0 \/ q = Len(input)}
AcceptedAt(r, p, q) ==
    DescriptorAt(q, CrcUpdate(r.vhash, SubSeq(input, p + 1, q)), r.n + q - p).len # 0
DescriptorSpan(r, p, q) ==
    DescriptorChunk(r, [b |-> SubSeq(input, p + 1, q), pos |-> q])
DescriptorRunOut(x) == [x EXCEPT !.err = ErrUnexpectedEOF]
DescriptorDrain(r, p) ==
    IF r.veof THEN [rd |-> r, pos |-> p, b |-> <<>>, err |-> EOF]
    ELSE IF Avail(p) = 0
    THEN [rd |-> r, pos |-> p, b |-> <<>>, err |-> ErrUnexpectedEOF]
    ELSE IF \E q \in ChunkEnds(p) : AcceptedAt(r, p, q)
    THEN DescriptorSpan(r, p, CHOOSE q \in ChunkEnds(p) :
                                  /\ AcceptedAt(r, p, q)
                                  /\ \A j \in ChunkEnds(p) : j < q => ~AcceptedAt(r, p, j))
    ELSE DescriptorRunOut(DescriptorSpan(r, p, Len(input)))

\* One Read of the decompressing layer: [rd, pos, b, err]
DcompRead(r, p, k) ==
    IF r.desc THEN DescriptorRead(r, p, k)
    ELSE IF r.dcomp = NewFlateReader THEN FlateRead(r, p, k)
    ELSE PlainDeliver(r, LimitRead(r.N, p, k))

\* crcReader.Read: accumulates the delivered bytes and verifies the sum at
\* the end of the entry; x is the result of the layer below, h the new sum.
\* The type's code is not among the repository's files: this follows the
\* specification's CRC accumulator, whose sum covers the bytes delivered and
\* whose mismatch at the end of the entry is a checksum error.
CrcVerify(r, x, h) ==
    [rd  |-> [x.rd EXCEPT !.hash = h],
     pos |-> x.pos,
     b   |-> x.b,
     err |-> IF x.err = EOF /\ CrcSum(h) # x.rd.crc THEN ErrChecksum ELSE x.err]
CrcAccumulate(r, x) == CrcVerify(r, x, CrcUpdate(x.rd.hash, x.b))
CrcRead(r, p, k) == CrcAccumulate(r, DcompRead(r, p, k))

\* io.Copy(ioutil.Discard, r.Reader): reads to the end; [rd, pos, err] with
\* err = NoErr at io.EOF
RECURSIVE Drain(_, _)
DrainStep(x) ==
    IF x.err = EOF THEN [rd |-> x.rd, pos |-> x.pos, err |-> NoErr]
    ELSE IF x.err # NoErr THEN [rd |-> x.rd, pos |-> x.pos, err |-> x.err]
    ELSE Drain(x.rd, x.pos)
Drain(r, p) ==
    IF r.desc THEN DrainStep(CrcAccumulate(r, DescriptorDrain(r, p)))
    ELSE DrainStep(CrcRead(r, p, Huge))

\* ------------------------------------------------------------------------
\* Reader.Next (reader.go:45-91)
\* ------------------------------------------------------------------------
\* The signature loop (reader.go:52-67). An iteration at position q leaves
\* the loop when Peek fails or finds one of the two signatures, and goes on
\* to q + 1 otherwise; the loop started at p ends at the first such q.
LeavesLoop(q) ==
    LET sigBytes == Peek(q, 4) IN
    \/ sigBytes.err # NoErr
    \/ sigBytes.b = LE32(fileHeaderSignature)
    \/ sigBytes.b = LE32(directoryHeaderSignature)

\* a loop that goes on to q + 4
ScanSignatureStride(p) ==
    LET q == CHOOSE i \in {j \in p..Len(input) : (j - p) % 4 = 0} :
                 /\ LeavesLoop(i)
                 /\ \A j \in p..(i - 1) : (j - p) % 4 = 0 => ~LeavesLoop(j)
        sigBytes == Peek(q, 4)
    IN IF sigBytes.err # NoErr THEN [kind |-> "err", pos |-> q, err |-> sigBytes.err]
       ELSE IF sigBytes.b = LE32(fileHeaderSignature)
            THEN [kind |-> "file", pos |-> q, err |-> NoErr]
       ELSE [kind |-> "dir", pos |-> q, err |-> NoErr]

\* [kind, pos, err], kind "file", "dir" or "err"
ScanSignature(p) ==
    LET q == CHOOSE i \in p..Len(input) :
                 LeavesLoop(i) /\ \A j \in p..(i - 1) : ~LeavesLoop(j)
        sigBytes == Peek(q, 4)
    IN IF sigBytes.err # NoErr THEN [kind |-> "err", pos |-> q, err |-> sigBytes.err]
       ELSE IF sigBytes.b = LE32(fileHeaderSignature)
            THEN [kind |-> "file", pos |-> q, err |-> NoErr]
       ELSE [kind |-> "dir", pos |-> q, err |-> NoErr]

\* What one call does to (r.Reader, position): [f, err, ret, rd, pos], ret
\* naming the return statement taken. The stages follow the code.

\* a call that reads an entry of an unknown method as stored
NextOpenAnyMethod(r, h, dcomp) ==
    [f |-> h.f, err |-> NoErr, ret |-> "reader.go:90",
     rd |-> NewPipeline(h.f, IF dcomp = Nil THEN NopCloser ELSE dcomp), pos |-> h.pos]

\* reader.go:74-90: the header was parsed, dcomp is the constructor found
NextOpen(r, h, dcomp) ==
    IF dcomp = Nil
    THEN [f |-> NilHeader, err |-> ErrAlgorithm, ret |-> "reader.go:76", rd |-> r,
          pos |-> h.pos]
    ELSE [f |-> h.f, err |-> NoErr, ret |-> "reader.go:90",
          rd |-> NewPipeline(h.f, dcomp), pos |-> h.pos]

\* reader.go:69-74: h is the result of readFileHeader
NextHeader(r, h, own, tab) ==
    IF h.err # NoErr
    THEN [f |-> NilHeader, err |-> h.err, ret |-> "reader.go:71", rd |-> r, pos |-> h.pos]
    ELSE NextOpen(r, h, ReaderDecompressor(own, tab, h.f.Method))

\* reader.go:62: c is the result of discardCentralDirectory
NextDirectory(r, c) ==
    [f |-> NilHeader, err |-> c.err, ret |-> c.ret, rd |-> r, pos |-> c.pos]

\* reader.go:53-69: s is the result of the signature loop
NextSignature(r, s, own, tab) ==
    IF s.kind = "err"
    THEN [f |-> NilHeader, err |-> s.err, ret |-> "reader.go:55", rd |-> r, pos |-> s.pos]
    ELSE IF s.kind = "dir" THEN NextDirectory(r, discardCentralDirectory(s.pos))
    ELSE NextHeader(r, readFileHeader(s.pos), own, tab)

\* a call that goes on to the next signature whatever the drain returned
NextDrainedAnyway(d, own, tab) ==
    NextSignature(d.rd, ScanSignature(d.pos), own, tab)

\* reader.go:46-51: d is the result of draining the open pipeline
NextDrained(d, own, tab) ==
    IF d.err # NoErr
    THEN [f |-> NilHeader, err |-> d.err, ret |-> "reader.go:48", rd |-> d.rd, pos |-> d.pos]
    ELSE NextSignature(d.rd, ScanSignature(d.pos), own, tab)

NextResult(r, own, tab, p) ==
    IF r.open THEN NextDrained(Drain(r, p), own, tab)
    ELSE NextDrained([rd |-> r, pos |-> p, err |-> NoErr], own, tab)

ReaderNext ==
    /\ nextCalls < MaxCalls
    /\ \E x \in {NextResult(rd, rdecomp, decompressors, pos)} :
        /\ rd' = x.rd
        /\ pos' = x.pos
        /\ lastNext' = [f |-> x.f, err |-> x.err, ret |-> x.ret, from |-> pos,
                        to |-> x.pos]
        /\ hist' = Append(hist, [f |-> x.f, err |-> x.err, ret |-> x.ret,
                                 from |-> pos, to |-> x.pos])
    /\ nextCalls' = nextCalls + 1
    /\ lastRead' = [n |-> 0, b |-> <<>>, err |-> NoErr]
    /\ UNCHANGED <<plan, input, rdecomp, regVars, poolVars>>

\* Reader.Read through the embedded r.Reader, with a buffer of k bytes
ReaderRead(k) ==
    /\ IF rd.open
       THEN \E x \in {CrcRead(rd, pos, k)} :
            /\ rd' = x.rd
            /\ pos' = x.pos
            /\ lastRead' = [n |-> Len(x.b), b |-> x.b, err |-> x.err]
       ELSE /\ lastRead' = [n |-> 0, b |-> <<>>, err |-> PanicNilReader]
            /\ UNCHANGED <<rd, pos>>
    /\ UNCHANGED <<plan, input, rdecomp, lastNext, hist, nextCalls, regVars, poolVars>>

\* Reader.Buffered (reader.go:256): what reading r.br to its end yields
Buffered == Drop(input, pos)

\* ------------------------------------------------------------------------
\* The inputs of the model: archives written record by record in the layout
\* the code reads (stolen.go:28-35, reader.go:103-117,
\* centralDirectory.go:45-88), with garbage, trailing bytes, a second
\* archive or a cut.
\* ------------------------------------------------------------------------
RECURSIVE Flatten(_)
Flatten(ss) == IF ss = <<>> THEN <<>> ELSE ss[1] \o Flatten(Drop(ss, 1))

\* sequences over S of length at most n
RECURSIVE SeqsUpTo(_, _)
SeqsUpTo(S, n) ==
    IF n = 0 THEN {<<>>}
    ELSE LET shorter == SeqsUpTo(S, n - 1)
         IN shorter \cup {Append(t, x) : t \in shorter, x \in S}

Prefixes(s, n) == {Take(s, k) : k \in 0..Min(n, Len(s))}

\* The kinds of entry: name, data as stored, the bytes it decodes to
EntryKinds ==
    { [name |-> <<97>>, method |-> Store, zip64 |-> FALSE,
       data |-> <<80, 75, 1, 2>>, plain |-> <<80, 75, 1, 2>>, comment |-> <<>>],
      [name |-> <<98, 47>>, method |-> Store, zip64 |-> FALSE,
       data |-> <<>>, plain |-> <<>>, comment |-> <<33>>],
      [name |-> <<99>>, method |-> Deflate, zip64 |-> FALSE,
       data |-> <<1, 2, 0, 253, 255, 7, 9>>, plain |-> <<7, 9>>, comment |-> <<>>],
      [name |-> <<100>>, method |-> Store, zip64 |-> TRUE,
       data |-> <<80, 75, 3>>, plain |-> <<80, 75, 3>>, comment |-> <<>>] }

\* the ZIP64 extra record: tag, size, uncompressed size, compressed size
ExtraOf(e) ==
    IF e.zip64
    THEN LE16(zip64ExtraID) \o LE16(16) \o LE64(Len(e.plain)) \o LE64(Len(e.data))
    ELSE <<>>
Size32(e, n) == IF e.zip64 THEN MaxU32 ELSE LE32(n)

LocalHeader(e) ==
    LE32(fileHeaderSignature) \o LE16(20) \o LE16(0) \o LE16(e.method)
    \o LE16(0) \o LE16(33) \o CRC32(e.plain)
    \o Size32(e, Len(e.data)) \o Size32(e, Len(e.plain))
    \o LE16(Len(e.name)) \o LE16(Len(ExtraOf(e))) \o e.name \o ExtraOf(e)
LocalEntry(e) == LocalHeader(e) \o e.data

DirectoryHeader(e) ==
    LE32(directoryHeaderSignature) \o LE16(20) \o LE16(20) \o LE16(0)
    \o LE16(e.method) \o LE16(0) \o LE16(33) \o CRC32(e.plain)
    \o Size32(e, Len(e.data)) \o Size32(e, Len(e.plain))
    \o LE16(Len(e.name)) \o LE16(Len(ExtraOf(e))) \o LE16(Len(e.comment))
    \o LE16(0) \o LE16(0) \o LE32(0) \o LE32(0)
    \o e.name \o ExtraOf(e) \o e.comment

Directory64End(n) ==
    LE32(directory64EndSignature) \o LE64(44) \o LE16(45) \o LE16(45)
    \o LE32(0) \o LE32(0) \o LE64(n) \o LE64(n) \o LE64(0) \o LE64(0)
Directory64Loc == LE32(directory64LocSignature) \o LE32(0) \o LE64(0) \o LE32(1)
DirectoryEnd(n, comment) ==
    LE32(directoryEndSignature) \o LE16(0) \o LE16(0) \o LE16(n) \o LE16(n)
    \o LE32(0) \o LE32(0) \o LE16(Len(comment)) \o comment

MixRecord(m, n) == IF m = "end64" THEN Directory64End(n) ELSE Directory64Loc

\* entries, then their directory headers, then the records named by mix,
\* then the end record
Directory(entries, mix, comment) ==
    Flatten([i \in 1..Len(entries) |-> DirectoryHeader(entries[i])])
    \o Flatten([i \in 1..Len(mix) |-> MixRecord(mix[i], Len(entries))])
    \o DirectoryEnd(Len(entries), comment)
Archive(entries, mix, comment) ==
    Flatten([i \in 1..Len(entries) |-> LocalEntry(entries[i])])
    \o Directory(entries, mix, comment)

CommentPattern == <<80, 75, 3, 4, 0, 0>>
TrailPattern   == <<80, 75, 5, 6, 1, 80, 75, 7>>
NoiseBytes     == {80, 75, 3, 4}
Mixes          == SeqsUpTo({"end64", "loc64"}, 2)

NoCut == 0 - 1
PlanOf(kind, noise, entries, mix, comment, entries2, trail, cut) ==
    [kind |-> kind, noise |-> noise, entries |-> entries, mix |-> mix,
     comment |-> comment, entries2 |-> entries2, trail |-> trail, cut |-> cut]

\* the bytes of a plan
FirstArchive(pl) ==
    IF pl.kind = "cutdir" THEN Directory(pl.entries, pl.mix, pl.comment)
    ELSE Archive(pl.entries, pl.mix, pl.comment)
Uncut(pl) ==
    pl.noise
    \o (IF pl.kind = "exhaust" THEN <<>> ELSE FirstArchive(pl))
    \o (IF pl.kind = "concat" THEN Archive(pl.entries2, <<>>, <<>>) ELSE <<>>)
    \o pl.trail
Render(pl) == IF pl.cut = NoCut THEN Uncut(pl) ELSE Take(Uncut(pl), pl.cut)

OneEntry == SeqsUpTo(EntryKinds, 1)
StoreEntry == CHOOSE e \in EntryKinds : e.name = <<97>>
Zip64Entry == CHOOSE e \in EntryKinds : e.zip64

Plans ==
    \* an archive alone or followed by bytes that are no archive
    {PlanOf("archive", <<>>, es, <<>>, <<>>, <<>>, t, NoCut) :
        es \in SeqsUpTo(EntryKinds, MaxEntries),
        t \in {Take(TrailPattern, MaxNoise)}}
    \cup {PlanOf("archive", <<>>, es, m, c, <<>>, t, NoCut) :
        es \in OneEntry, m \in Mixes,
        c \in Prefixes(CommentPattern, MaxComment),
        t \in Prefixes(TrailPattern, MaxNoise)}
    \* two archives back to back
    \cup {PlanOf("concat", <<>>, es, <<>>, c, es2, <<>>, NoCut) :
        es \in SeqsUpTo({StoreEntry, Zip64Entry}, MaxEntries),
        c \in {<<>>, Take(CommentPattern, MaxComment)},
        es2 \in OneEntry}
    \* garbage before an archive
    \cup {PlanOf("noise", n, <<e>>, <<>>, <<>>, <<>>, <<>>, NoCut) :
        n \in SeqsUpTo(NoiseBytes, MaxNoise), e \in {StoreEntry, Zip64Entry}}
    \* no archive at all
    \cup {PlanOf("exhaust", n, <<>>, <<>>, <<>>, <<>>, <<>>, NoCut) :
        n \in SeqsUpTo(NoiseBytes, MaxNoise)}
    \* an archive cut short
    \cup UNION {
          {PlanOf("trunc", <<>>, <<StoreEntry>>, m, Take(CommentPattern, MaxComment),
                  <<>>, <<>>, k) :
             k \in 0..(Len(Archive(<<StoreEntry>>, m,
                                   Take(CommentPattern, MaxComment))) - 1)} :
          m \in {<<>>, <<"end64", "loc64">>} }
    \* a central directory alone, cut short
    \cup {PlanOf("cutdir", <<>>, <<StoreEntry>>, <<"end64", "loc64">>,
                 Take(CommentPattern, MaxComment), <<>>, <<>>, k) :
             k \in 4..(Len(Directory(<<StoreEntry>>, <<"end64", "loc64">>,
                                     Take(CommentPattern, MaxComment))) - 1)}

ReadSizes == {2}

\* ------------------------------------------------------------------------
\* The session specification
\* ------------------------------------------------------------------------
IdleRegistry ==
    /\ decompressors = BuiltIns
    /\ sessTab = <<>>
    /\ regLog = <<>>
    /\ lookLog = <<>>
IdlePool ==
    /\ pool = <<>>
    /\ fr = <<>>
    /\ mu = <<>>
    /\ pc = <<>>
    /\ tgt = <<>>
    /\ got = <<>>
    /\ rret = <<>>
    /\ puts = <<>>
    /\ made = 0
    /\ closedDone = <<>>

Init ==
    /\ plan \in Plans
    /\ input = Render(plan)
    /\ pos = 0
    /\ rd = NoReader
    /\ rdecomp = <<>>
    /\ lastNext = [f |-> NilHeader, err |-> NoErr, ret |-> "none", from |-> 0, to |-> 0]
    /\ hist = <<>>
    /\ lastRead = [n |-> 0, b |-> <<>>, err |-> NoErr]
    /\ nextCalls = 0
    /\ IdleRegistry
    /\ IdlePool

Next ==
    \/ ReaderNext
    \/ \E k \in ReadSizes : ReaderRead(k)

Spec == Init /\ [][Next]_vars

\* ------------------------------------------------------------------------
\* The registry specification: registrations and lookups, process-wide and
\* session-scoped, in any order. Each is one step: sync.Map makes
\* LoadOrStore and Load atomic, and a session's own table is touched by that
\* session alone.
\* ------------------------------------------------------------------------
Sessions == 1..MaxSessions
Methods == {Store, Deflate, 12}
Constructors == {"customA", "customB"}
\* the ids sessions override: one with a process-wide entry, one without
Overridden == {Deflate, 12}

\* the tables: 0 is the process-wide one, s > 0 that of session s
Keys == (0..MaxSessions) \X Methods
RECURSIVE RegsIn(_, _)
RegsIn(log, keys) ==
    IF keys = {} THEN 0
    ELSE LET k == CHOOSE x \in keys : TRUE
         IN Len(log[k]) + RegsIn(log, keys \ {k})
RegsMade == RegsIn(regLog, Keys)

\* a session that is not running: the registry and the pool do not touch it
IdleStream ==
    /\ plan = PlanOf("exhaust", <<>>, <<>>, <<>>, <<>>, <<>>, <<>>, NoCut)
    /\ input = <<>>
    /\ pos = 0
    /\ rd = NoReader
    /\ rdecomp = <<>>
    /\ lastNext = [f |-> NilHeader, err |-> NoErr, ret |-> "none", from |-> 0, to |-> 0]
    /\ hist = <<>>
    /\ lastRead = [n |-> 0, b |-> <<>>, err |-> NoErr]
    /\ nextCalls = 0

RegInit ==
    /\ IdleStream
    /\ IdlePool
    /\ decompressors = BuiltIns
    /\ sessTab = [s \in Sessions |-> <<>>]
    /\ regLog = [k \in Keys |-> <<>>]
    /\ lookLog = <<>>

\* RegisterDecompressor(method, dcomp) (stolen.go:145-149); dup: it panicked
RegisterDecompressor(method, dcomp) ==
    /\ RegsMade < MaxRegs
    /\ \E x \in {LoadOrStore(decompressors, method, dcomp)} :
          /\ decompressors' = x.tab
          /\ regLog' = [regLog EXCEPT ![<<0, method>>] =
                            Append(@, [dcomp |-> dcomp, dup |-> x.dup])]
    /\ lookLog' = <<>>
    /\ UNCHANGED <<sessTab, streamVars, poolVars>>

\* decompressor(method) called by any thread (stolen.go:151-157)
DecompressorCall(method) ==
    /\ lookLog' = <<[sess |-> 0, method |-> method,
                     dcomp |-> decompressor(decompressors, method)]>>
    /\ UNCHANGED <<decompressors, sessTab, regLog, streamVars, poolVars>>

\* (r *Reader).RegisterDecompressor(method, dcomp) of session s
\* (reader.go:261-266): no failure path
ReaderRegisterDecompressor(s, method, dcomp) ==
    /\ RegsMade < MaxRegs
    /\ sessTab' = [sessTab EXCEPT ![s] = SetOwn(@, method, dcomp)]
    /\ regLog' = [regLog EXCEPT ![<<s, method>>] =
                      Append(@, [dcomp |-> dcomp, dup |-> FALSE])]
    /\ lookLog' = <<>>
    /\ UNCHANGED <<decompressors, streamVars, poolVars>>

\* (r *Reader).decompressor(method) of session s (reader.go:268-277), the
\* lookup Next makes before it builds the pipeline (reader.go:74)
ReaderDecompressorCall(s, method) ==
    /\ lookLog' = <<[sess |-> s, method |-> method,
                     dcomp |-> ReaderDecompressor(sessTab[s], decompressors, method)]>>
    /\ UNCHANGED <<decompressors, sessTab, regLog, streamVars, poolVars>>

RegNext ==
    \/ \E m \in Methods, d \in Constructors : RegisterDecompressor(m, d)
    \/ \E m \in Methods : DecompressorCall(m)
    \/ \E s \in Sessions, m \in Overridden, d \in Constructors \cup {Nil} :
          ReaderRegisterDecompressor(s, m, d)
    \/ \E s \in Sessions, m \in Methods : ReaderDecompressorCall(s, m)

RegSpec == RegInit /\ [][RegNext]_vars

\* ------------------------------------------------------------------------
\* The pool specification: goroutines that check decoders out
\* (newFlateReader), Read through pooledFlateReaders and Close them, a
\* statement at a time. Any goroutine may work on any pooledFlateReader.
\* ------------------------------------------------------------------------
Procs == 1..MaxProcs
Instances == 1..MaxInstances

\* a mutex that never blocks
NeverLocked(muv, r) == TRUE

\* r.mu.Lock() goes through (stolen.go:113, 122)
MutexFree(muv, r) == muv[r] = 0

\* a Close that leaves r.fr as it is
KeepFr(frs, r) == frs

\* r.fr = nil (stolen.go:128)
ClearFr(frs, r) == [frs EXCEPT ![r] = 0]

\* flateReaderPool.Put(x) (stolen.go:127); Put(nil) stores nothing
PoolPut(p, x) == IF x = 0 THEN p ELSE [p EXCEPT ![x] = @ + 1]

NoRead == [n |-> 0, err |-> NoErr, afterClose |-> FALSE]

PoolInit ==
    /\ IdleStream
    /\ IdleRegistry
    /\ pool = [i \in Instances |-> 0]
    /\ fr = <<>>
    /\ mu = <<>>
    /\ puts = <<>>
    /\ closedDone = <<>>
    /\ made = 0
    /\ pc = [g \in Procs |-> "idle"]
    /\ tgt = [g \in Procs |-> 0]
    /\ got = [g \in Procs |-> 0]
    /\ rret = [g \in Procs |-> NoRead]

\* decoders that goroutines inside newFlateReader are about to make
Pending == Cardinality({h \in Procs : pc[h] = "new" /\ got[h] = 0})

\* newFlateReader, stolen.go:134: flateReaderPool.Get() hands out a decoder
\* of the free list, or nil, which it may do at any time
NewGet(g) ==
    /\ pc[g] = "idle"
    /\ Len(fr) + Cardinality({h \in Procs : pc[h] = "new"}) < MaxReaders
    /\ \/ \E i \in Instances :
             /\ pool[i] > 0
             /\ pool' = [pool EXCEPT ![i] = @ - 1]
             /\ got' = [got EXCEPT ![g] = i]
       \/ /\ made + Pending < MaxInstances
          /\ got' = [got EXCEPT ![g] = 0]
          /\ pool' = pool
    /\ pc' = [pc EXCEPT ![g] = "new"]
    /\ UNCHANGED <<fr, mu, tgt, rret, puts, made, closedDone, streamVars, regVars>>

\* newFlateReader, stolen.go:135-140: Reset the decoder or make one, and
\* wrap it
NewMake(g) ==
    /\ pc[g] = "new"
    /\ fr' = Append(fr, IF got[g] # 0 THEN got[g] ELSE made + 1)
    /\ made' = IF got[g] # 0 THEN made ELSE made + 1
    /\ mu' = Append(mu, 0)
    /\ puts' = Append(puts, 0)
    /\ closedDone' = Append(closedDone, FALSE)
    /\ got' = [got EXCEPT ![g] = 0]
    /\ pc' = [pc EXCEPT ![g] = "idle"]
    /\ UNCHANGED <<pool, tgt, rret, streamVars, regVars>>

\* Read, stolen.go:113: the call starts and takes the mutex
ReadLock(g, r) ==
    /\ pc[g] = "idle"
    /\ MutexFree(mu, r)
    /\ mu' = [mu EXCEPT ![r] = g]
    /\ tgt' = [tgt EXCEPT ![g] = r]
    /\ rret' = [rret EXCEPT ![g] = [n |-> 0, err |-> "pending",
                                    afterClose |-> closedDone[r]]]
    /\ pc' = [pc EXCEPT ![g] = "read:check"]
    /\ UNCHANGED <<pool, fr, got, puts, made, closedDone, streamVars, regVars>>

\* Read, stolen.go:115-117: r.fr == nil returns the error, the deferred
\* Unlock running on the way out
ReadCheck(g) ==
    /\ pc[g] = "read:check"
    /\ IF fr[tgt[g]] = 0
       THEN /\ rret' = [rret EXCEPT ![g].err = ErrReadAfterClose]
            /\ mu' = [mu EXCEPT ![tgt[g]] = 0]
            /\ tgt' = [tgt EXCEPT ![g] = 0]
            /\ pc' = [pc EXCEPT ![g] = "idle"]
       ELSE /\ pc' = [pc EXCEPT ![g] = "read:fr"]
            /\ UNCHANGED <<rret, mu, tgt>>
    /\ UNCHANGED <<pool, fr, got, puts, made, closedDone, streamVars, regVars>>

\* Read, stolen.go:118: r.fr is loaded and its Read entered; calling Read
\* on a nil interface panics
ReadFr(g) ==
    /\ pc[g] = "read:fr"
    /\ IF fr[tgt[g]] = 0
       THEN /\ rret' = [rret EXCEPT ![g].err = PanicNilReader]
            /\ mu' = [mu EXCEPT ![tgt[g]] = 0]
            /\ tgt' = [tgt EXCEPT ![g] = 0]
            /\ pc' = [pc EXCEPT ![g] = "idle"]
            /\ got' = got
       ELSE /\ got' = [got EXCEPT ![g] = fr[tgt[g]]]
            /\ pc' = [pc EXCEPT ![g] = "read:run"]
            /\ UNCHANGED <<rret, mu, tgt>>
    /\ UNCHANGED <<pool, fr, puts, made, closedDone, streamVars, regVars>>

\* Read, stolen.go:118: the decoder's Read returns, bytes or the end of its
\* stream, and the deferred Unlock runs
ReadReturn(g) ==
    /\ pc[g] = "read:run"
    /\ \E x \in {[n |-> 1, err |-> NoErr], [n |-> 0, err |-> EOF]} :
          rret' = [rret EXCEPT ![g].n = x.n, ![g].err = x.err]
    /\ mu' = [mu EXCEPT ![tgt[g]] = 0]
    /\ tgt' = [tgt EXCEPT ![g] = 0]
    /\ got' = [got EXCEPT ![g] = 0]
    /\ pc' = [pc EXCEPT ![g] = "idle"]
    /\ UNCHANGED <<pool, fr, puts, made, closedDone, streamVars, regVars>>

\* Close, stolen.go:122: the call starts and takes the mutex
CloseLock(g, r) ==
    /\ pc[g] = "idle"
    /\ MutexFree(mu, r)
    /\ mu' = [mu EXCEPT ![r] = g]
    /\ tgt' = [tgt EXCEPT ![g] = r]
    /\ pc' = [pc EXCEPT ![g] = "close:check"]
    /\ UNCHANGED <<pool, fr, got, rret, puts, made, closedDone, streamVars, regVars>>

\* Close, stolen.go:125-126: r.fr != nil, and then r.fr.Close(), which
\* changes nothing here; a nil r.fr returns through the deferred Unlock
CloseCheck(g) ==
    /\ pc[g] = "close:check"
    /\ IF fr[tgt[g]] = 0
       THEN /\ closedDone' = [closedDone EXCEPT ![tgt[g]] = TRUE]
            /\ mu' = [mu EXCEPT ![tgt[g]] = 0]
            /\ tgt' = [tgt EXCEPT ![g] = 0]
            /\ pc' = [pc EXCEPT ![g] = "idle"]
       ELSE /\ pc' = [pc EXCEPT ![g] = "close:put"]
            /\ UNCHANGED <<closedDone, mu, tgt>>
    /\ UNCHANGED <<pool, fr, got, rret, puts, made, streamVars, regVars>>

\* Close, stolen.go:127: flateReaderPool.Put(r.fr)
ClosePut(g) ==
    /\ pc[g] = "close:put"
    /\ pool' = PoolPut(pool, fr[tgt[g]])
    /\ puts' = [puts EXCEPT ![tgt[g]] = @ + 1]
    /\ pc' = [pc EXCEPT ![g] = "close:nil"]
    /\ UNCHANGED <<fr, mu, tgt, got, rret, made, closedDone, streamVars, regVars>>

\* Close, stolen.go:128-130: r.fr = nil, and the return through the
\* deferred Unlock
CloseNil(g) ==
    /\ pc[g] = "close:nil"
    /\ fr' = ClearFr(fr, tgt[g])
    /\ closedDone' = [closedDone EXCEPT ![tgt[g]] = TRUE]
    /\ mu' = [mu EXCEPT ![tgt[g]] = 0]
    /\ tgt' = [tgt EXCEPT ![g] = 0]
    /\ pc' = [pc EXCEPT ![g] = "idle"]
    /\ UNCHANGED <<pool, got, rret, puts, made, streamVars, regVars>>

PoolNext ==
    \E g \in Procs :
        \/ NewGet(g)
        \/ NewMake(g)
        \/ \E r \in DOMAIN fr : ReadLock(g, r)
        \/ ReadCheck(g)
        \/ ReadFr(g)
        \/ ReadReturn(g)
        \/ \E r \in DOMAIN fr : CloseLock(g, r)
        \/ CloseCheck(g)
        \/ ClosePut(g)
        \/ CloseNil(g)

PoolSpec == PoolInit /\ [][PoolNext]_vars

\* ------------------------------------------------------------------------
\* The header specification: one local header with a generated extra field,
\* followed by a few data bytes, read by the same Next and Read.
\* ------------------------------------------------------------------------
\* an extra record as written: tag(2) size(2) payload; size is what the
\* record declares, which may be more than the payload that follows
ExtraRecord(rec) == LE16(rec.tag) \o LE16(rec.size) \o rec.payload
WholeRecord(tag, payload) == [tag |-> tag, size |-> Len(payload), payload |-> payload]

Zip64Records ==
    {WholeRecord(zip64ExtraID, p) :
        p \in {<<>>, <<9, 9, 9, 9>>, LE64(5), LE64(6) \o LE64(2),
               LE64(7) \o LE64(1) \o LE64(4)}}
OtherRecord == WholeRecord(39321, <<1, 2>>)
\* a record that declares more payload than the extra field holds
RaggedRecord == [tag |-> zip64ExtraID, size |-> 16, payload |-> LE64(5)]

ExtraFields ==
    SeqsUpTo(Zip64Records \cup {OtherRecord}, MaxExtras)
    \cup {Append(t, RaggedRecord) :
             t \in SeqsUpTo(Zip64Records \cup {OtherRecord}, MaxExtras - 1)}

HeaderData == <<7, 9, 11, 13>>

HeaderPlan(flags, method, time, date, csize32, usize32, recs) ==
    [kind |-> "header", flags |-> flags, method |-> method,
     time |-> time, date |-> date, csize32 |-> csize32, usize32 |-> usize32,
     name |-> <<97>>, recs |-> recs]

ExtraBytes(recs) == Flatten([i \in 1..Len(recs) |-> ExtraRecord(recs[i])])

RenderHeader(pl) ==
    LE32(fileHeaderSignature) \o LE16(20) \o LE16(pl.flags) \o LE16(pl.method)
    \o LE16(pl.time) \o LE16(pl.date) \o CRC32(HeaderData)
    \o pl.csize32 \o pl.usize32
    \o LE16(Len(pl.name)) \o LE16(Len(ExtraBytes(pl.recs)))
    \o pl.name \o ExtraBytes(pl.recs) \o HeaderData

HeaderPlans ==
    {HeaderPlan(0, Store, 0, 33, c, u, recs) :
        c \in {LE32(4), MaxU32}, u \in {LE32(4), MaxU32}, recs \in ExtraFields}

HeaderInit ==
    /\ plan \in HeaderPlans
    /\ input = RenderHeader(plan)
    /\ pos = 0
    /\ rd = NoReader
    /\ rdecomp = <<>>
    /\ lastNext = [f |-> NilHeader, err |-> NoErr, ret |-> "none", from |-> 0, to |-> 0]
    /\ hist = <<>>
    /\ lastRead = [n |-> 0, b |-> <<>>, err |-> NoErr]
    /\ nextCalls = 0
    /\ IdleRegistry
    /\ IdlePool

HeaderSpec == HeaderInit /\ [][Next]_vars

\* ------------------------------------------------------------------------
\* The timestamp specification: one local header whose DOS date and time
\* are zero or not, with extra records that carry a modify time (or fail
\* to), read by the same Next and Read.
\* ------------------------------------------------------------------------
\* 1980-01-01 00:00:00 UTC, the instant of DOS date 33 and time 0, as Unix
\* seconds and as the eight bytes of its Windows filetime
DosEpochUnix == 315532800
DosEpochTicks == <<0, 128, 213, 225, 159, 231, 168, 1>>
\* the Windows filetime of January 1, year 1, 00:00:00 UTC
YearOneTicks == <<0, 0, 137, 221, 232, 49, 254, 248>>

ExtTimeRecord(flags, ts) == WholeRecord(extTimeExtraID, <<flags>> \o LE32(ts))
UnixRecord(tag, ts) == WholeRecord(tag, LE32(0) \o LE32(ts))
NtfsRecord(attrTag, ticks) ==
    WholeRecord(ntfsExtraID, LE32(0) \o LE16(attrTag) \o LE16(24)
                             \o ticks \o LE64(0) \o LE64(0))

TimeRecords ==
    {ExtTimeRecord(1, DosEpochUnix),
     ExtTimeRecord(1, DosEpochUnix + 5 * 3600 + 450),
     ExtTimeRecord(2, DosEpochUnix),
     WholeRecord(extTimeExtraID, <<1, 0, 0, 0>>),
     UnixRecord(unixExtraID, DosEpochUnix - 15 * 3600),
     UnixRecord(infoZipUnixExtraID, DosEpochUnix + 449),
     WholeRecord(unixExtraID, LE32(DosEpochUnix)),
     NtfsRecord(1, Increment(DosEpochTicks)),
     NtfsRecord(1, YearOneTicks),
     NtfsRecord(2, DosEpochTicks),
     OtherRecord}

\* DOS date and time: both zero, one of them zero, none
DosFields == {<<0, 0>>, <<33, 0>>, <<0, 1>>, <<33, 2048>>}

TimePlans ==
    {HeaderPlan(0, Store, d[2], d[1], LE32(4), LE32(4), recs) :
        d \in DosFields, recs \in SeqsUpTo(TimeRecords, MaxExtras)}

TimeInit ==
    /\ plan \in TimePlans
    /\ input = RenderHeader(plan)
    /\ pos = 0
    /\ rd = NoReader
    /\ rdecomp = <<>>
    /\ lastNext = [f |-> NilHeader, err |-> NoErr, ret |-> "none", from |-> 0, to |-> 0]
    /\ hist = <<>>
    /\ lastRead = [n |-> 0, b |-> <<>>, err |-> NoErr]
    /\ nextCalls = 0
    /\ IdleRegistry
    /\ IdlePool

TimeSpec == TimeInit /\ [][Next]_vars

\* ------------------------------------------------------------------------
\* The walk specification: one local header whose extra field is a few
\* well-formed records, then one record of any shape (short for its branch,
\* cut inside a nested attribute, declaring more than is left), then a tail
\* (nothing, less than a record header, or one more record).
\* ------------------------------------------------------------------------
\* a declared size no extra field of the model can hold
Oversize == 64
Declaring(tag, size, payload) == [tag |-> tag, size |-> size, payload |-> payload]
NtfsAttr(attrTag, attrSize, bytes) == LE16(attrTag) \o LE16(attrSize) \o bytes
Filetimes == DosEpochTicks \o LE64(0) \o LE64(0)

LeadRecords ==
    {WholeRecord(zip64ExtraID, LE64(6) \o LE64(2)),
     ExtTimeRecord(1, DosEpochUnix + 3600),
     OtherRecord}

LastRecords ==
    {WholeRecord(zip64ExtraID, p) :
        p \in {<<>>, <<9, 9, 9, 9>>, LE64(5), LE64(5) \o <<9, 9, 9, 9>>,
               LE64(6) \o LE64(2)}}
    \cup {WholeRecord(ntfsExtraID, p) :
        p \in {<<0, 0, 0>>, LE32(0), LE32(0) \o <<1, 0>>,
               LE32(0) \o NtfsAttr(1, 24, DosEpochTicks),
               LE32(0) \o NtfsAttr(1, 24, Filetimes),
               LE32(0) \o NtfsAttr(1, 8, DosEpochTicks),
               LE32(0) \o NtfsAttr(1, 24, Filetimes) \o <<1, 0, 24>>}}
    \cup {WholeRecord(unixExtraID, p) :
        p \in {<<>>, LE32(0) \o <<0, 0, 0>>, LE32(0) \o LE32(DosEpochUnix)}}
    \cup {WholeRecord(extTimeExtraID, p) :
        p \in {<<>>, <<1>>, <<0>>, <<1, 0, 0, 0>>, <<1>> \o LE32(DosEpochUnix),
               <<3>> \o LE32(DosEpochUnix) \o <<0, 0>>}}
    \cup {Declaring(tag, Oversize, p) :
        tag \in {zip64ExtraID, ntfsExtraID, unixExtraID, extTimeExtraID, 39321},
        p \in {<<>>, <<1>> \o LE32(DosEpochUnix) \o <<0, 0, 0>>}}

\* what follows the last record: nothing, a tag and half a size, a record
WalkTails ==
    {<<>>, <<85, 84, 5>>, ExtraRecord(ExtTimeRecord(1, DosEpochUnix + 7200))}

WalkPlans ==
    {[kind |-> "walk", flags |-> 0, method |-> Store, time |-> 0, date |-> 33,
      csize32 |-> sz[1], usize32 |-> sz[2], name |-> <<97>>,
      recs |-> Append(lead, last), tail |-> tail] :
        sz \in {<<LE32(4), LE32(4)>>, <<MaxU32, LE32(4)>>, <<MaxU32, MaxU32>>},
        lead \in SeqsUpTo(LeadRecords, MaxExtras - 1),
        last \in LastRecords, tail \in WalkTails}

RenderWalk(pl) ==
    LE32(fileHeaderSignature) \o LE16(20) \o LE16(pl.flags) \o LE16(pl.method)
    \o LE16(pl.time) \o LE16(pl.date) \o CRC32(HeaderData)
    \o pl.csize32 \o pl.usize32
    \o LE16(Len(pl.name)) \o LE16(Len(ExtraBytes(pl.recs) \o pl.tail))
    \o pl.name \o ExtraBytes(pl.recs) \o pl.tail \o HeaderData

WalkInit ==
    /\ plan \in WalkPlans
    /\ input = RenderWalk(plan)
    /\ pos = 0
    /\ rd = NoReader
    /\ rdecomp = <<>>
    /\ lastNext = [f |-> NilHeader, err |-> NoErr, ret |-> "none", from |-> 0, to |-> 0]
    /\ hist = <<>>
    /\ lastRead = [n |-> 0, b |-> <<>>, err |-> NoErr]
    /\ nextCalls = 0
    /\ IdleRegistry
    /\ IdlePool

WalkSpec == WalkInit /\ [][Next]_vars

\* ------------------------------------------------------------------------
\* The descriptor specification: one stored entry with flag 0x8, its header
\* CRC and sizes zero, its data followed by a descriptor with or without
\* the signature, then by the directory, by nothing or by a second entry.
\* ------------------------------------------------------------------------
DescEntry(data) ==
    [name |-> <<101>>, method |-> Store, zip64 |-> FALSE, data |-> data,
     plain |-> data, comment |-> <<>>]

\* data that holds, after two bytes, a window matching those two bytes
FalseBoundary == <<7, 9>> \o CRC32(<<7, 9>>) \o LE32(2) \o LE32(2)

DescData == {<<7, 9>>, <<7, 9, 11>>, <<80, 75, 7, 8>>, FalseBoundary}

DescriptorHeader(e) ==
    LE32(fileHeaderSignature) \o LE16(20) \o LE16(8) \o LE16(e.method)
    \o LE16(0) \o LE16(33) \o LE32(0) \o LE32(0) \o LE32(0)
    \o LE16(Len(e.name)) \o LE16(0) \o e.name

\* crc: the CRC32 the descriptor declares
DataDescriptor(e, sig, crc) ==
    (IF sig THEN LE32(dataDescriptorSignature) ELSE <<>>)
    \o crc \o LE32(Len(e.data)) \o LE32(Len(e.plain))

DescTail(e, tail) ==
    IF tail = "dir" THEN Directory(<<e>>, <<>>, <<>>)
    ELSE IF tail = "entry" THEN Archive(<<StoreEntry>>, <<>>, <<>>)
    ELSE <<>>

DescPlan(data, sig, crc, tail) ==
    [kind |-> "desc", data |-> data, sig |-> sig, crc |-> crc, tail |-> tail]

RenderDesc(pl) ==
    DescriptorHeader(DescEntry(pl.data)) \o pl.data
    \o DataDescriptor(DescEntry(pl.data), pl.sig, pl.crc)
    \o DescTail(DescEntry(pl.data), pl.tail)

DescPlans ==
    UNION {{DescPlan(d, sig, crc, tail) :
               sig \in BOOLEAN, crc \in {CRC32(d), LE32(0)},
               tail \in {"dir", "entry", "none"}} : d \in DescData}

DescInit ==
    /\ plan \in DescPlans
    /\ input = RenderDesc(plan)
    /\ pos = 0
    /\ rd = NoReader
    /\ rdecomp = <<>>
    /\ lastNext = [f |-> NilHeader, err |-> NoErr, ret |-> "none", from |-> 0, to |-> 0]
    /\ hist = <<>>
    /\ lastRead = [n |-> 0, b |-> <<>>, err |-> NoErr]
    /\ nextCalls = 0
    /\ IdleRegistry
    /\ IdlePool

DescSpec == DescInit /\ [][Next]_vars

\* ------------------------------------------------------------------------
\* The method specification: a local header of a built-in, a registered or
\* an unknown method, after garbage and after another entry or not, read by
\* a session with or without a table of its own.
\* ------------------------------------------------------------------------
UnknownMethod == 99
\* HeaderData is no deflate stream: as method 8 the entry cannot be decoded
HeaderMethods == {Store, Deflate, 12, UnknownMethod}

MethodPlan(noise, first, hdr) ==
    [kind |-> "method", noise |-> noise, first |-> first, hdr |-> hdr]

\* the bytes before the header
MethodLead(pl) ==
    pl.noise \o (IF pl.first THEN LocalEntry(StoreEntry) ELSE <<>>)
MethodTail == Directory(<<StoreEntry>>, <<>>, <<>>)
RenderMethod(pl) == MethodLead(pl) \o RenderHeader(pl.hdr) \o MethodTail

MethodPlans ==
    {MethodPlan(n, first, HeaderPlan(0, m, 0, 33, LE32(4), LE32(4), recs)) :
        n \in Prefixes(<<80, 75>>, MaxNoise), first \in BOOLEAN,
        m \in HeaderMethods, recs \in {<<>>, <<OtherRecord>>}}

MethodInit ==
    /\ plan \in MethodPlans
    /\ input = RenderMethod(plan)
    /\ pos = 0
    /\ rd = NoReader
    /\ rdecomp \in {<<>>, 12 :> "customA"}
    /\ lastNext = [f |-> NilHeader, err |-> NoErr, ret |-> "none", from |-> 0, to |-> 0]
    /\ hist = <<>>
    /\ lastRead = [n |-> 0, b |-> <<>>, err |-> NoErr]
    /\ nextCalls = 0
    /\ decompressors \in {BuiltIns, (12 :> "customB") @@ BuiltIns}
    /\ sessTab = <<>>
    /\ regLog = <<>>
    /\ lookLog = <<>>
    /\ IdlePool

MethodSpec == MethodInit /\ [][Next]_vars

\* ------------------------------------------------------------------------
\* The truncation specification: one entry, stored or deflated, whose input
\* ends after the first bytes of its data (or after all of them), its
\* header declaring the CRC32 of the whole data or that of the bytes that
\* are there.
\* ------------------------------------------------------------------------
CutStored   == [method |-> Store, data |-> HeaderData, plain |-> HeaderData]
CutDeflated == [method |-> Deflate, data |-> <<1, 2, 0, 253, 255, 7, 9>>,
                plain |-> <<7, 9>>]

CutPlan(noise, e, crc, present) ==
    [kind |-> "cutdata", noise |-> noise, method |-> e.method, data |-> e.data,
     plain |-> e.plain, crc |-> crc, present |-> present]

RenderCut(pl) ==
    pl.noise
    \o LE32(fileHeaderSignature) \o LE16(20) \o LE16(0) \o LE16(pl.method)
    \o LE16(0) \o LE16(33) \o pl.crc
    \o LE32(Len(pl.data)) \o LE32(Len(pl.plain))
    \o LE16(1) \o LE16(0) \o <<97>>
    \o Take(pl.data, pl.present)

CutPlans ==
    UNION {{CutPlan(n, CutStored, crc, j) :
               n \in Prefixes(<<80, 75>>, MaxNoise),
               crc \in {CRC32(HeaderData), CRC32(Take(HeaderData, j))}} :
           j \in 0..Len(HeaderData)}
    \cup {CutPlan(n, CutDeflated, CRC32(CutDeflated.plain), j) :
               n \in Prefixes(<<80, 75>>, MaxNoise),
               j \in 0..Len(CutDeflated.data)}

CutInit ==
    /\ plan \in CutPlans
    /\ input = RenderCut(plan)
    /\ pos = 0
    /\ rd = NoReader
    /\ rdecomp = <<>>
    /\ lastNext = [f |-> NilHeader, err |-> NoErr, ret |-> "none", from |-> 0, to |-> 0]
    /\ hist = <<>>
    /\ lastRead = [n |-> 0, b |-> <<>>, err |-> NoErr]
    /\ nextCalls = 0
    /\ IdleRegistry
    /\ IdlePool

CutSpec == CutInit /\ [][Next]_vars

\* ------------------------------------------------------------------------
\* The skipper specification: one call of Next on a session that holds no
\* pipeline, followed iteration by iteration through the signature loop
\* (reader.go:52-67) and the record loop (centralDirectory.go:16-42).
\* lastNext.ret is where the call stands: the top of one of the loops, or
\* the return statement it took. The input is a central directory whose
\* ZIP64 end record declares a remaining size of any magnitude.
\* ------------------------------------------------------------------------
SignatureLoop == "reader.go:52"

\* the values of the remaining-size field, as the 8 bytes of the record
SizeFields ==
    { LE64(44), LE64(0), LE64(46),
      <<243, 255, 255, 127, 0, 0, 0, 0>>,            \* 2^31 - 13
      <<244, 255, 255, 127, 0, 0, 0, 0>>,            \* 2^31 - 12
      <<0, 0, 0, 128, 0, 0, 0, 0>>,                  \* 2^31
      <<0, 0, 0, 0, 1, 0, 0, 0>>,                    \* 2^32
      <<0, 0, 0, 0, 0, 0, 0, 128>>,                  \* 2^63
      <<243, 255, 255, 255, 255, 255, 255, 255>>,    \* 2^64 - 13
      <<244, 255, 255, 255, 255, 255, 255, 255>>,    \* 2^64 - 12
      <<248, 255, 255, 255, 255, 255, 255, 255>>,    \* 2^64 - 8
      <<255, 255, 255, 255, 255, 255, 255, 255>> }   \* 2^64 - 1

\* the ZIP64 end record with remaining size v: the 44 bytes of the version
\* 1 layout follow the field whatever it declares
Directory64EndOf(v) ==
    LE32(directory64EndSignature) \o v \o LE16(45) \o LE16(45)
    \o LE32(0) \o LE32(0) \o LE64(1) \o LE64(1) \o LE64(0) \o LE64(0)

SkipPlan(noise, v, loc, trail) ==
    [kind |-> "skip", noise |-> noise, v |-> v, loc |-> loc, trail |-> trail]

\* Next reaches the skipper on a directory header
SkipLead(pl) == pl.noise \o DirectoryHeader(StoreEntry)
RenderSkip(pl) ==
    SkipLead(pl)
    \o Directory64EndOf(pl.v)
    \o (IF pl.loc THEN Directory64Loc ELSE <<>>)
    \o DirectoryEnd(1, <<>>) \o pl.trail

SkipPlans ==
    {SkipPlan(n, v, loc, t) :
        n \in Prefixes(<<80, 75>>, MaxNoise), v \in SizeFields,
        loc \in BOOLEAN, t \in {<<>>, <<1>>}}

SkipInit ==
    /\ plan \in SkipPlans
    /\ input = RenderSkip(plan)
    /\ pos = 0
    /\ rd = NoReader
    /\ rdecomp = <<>>
    /\ lastNext = [f |-> NilHeader, err |-> NoErr, ret |-> SignatureLoop,
                   from |-> 0, to |-> 0]
    /\ hist = <<>>
    /\ lastRead = [n |-> 0, b |-> <<>>, err |-> NoErr]
    /\ nextCalls = 0
    /\ IdleRegistry
    /\ IdlePool

\* what a step did: the call stands at ret, the input at to
StepTo(f, err, ret, r, to) ==
    /\ lastNext' = [f |-> f, err |-> err, ret |-> ret, from |-> pos, to |-> to]
    /\ hist' = Append(hist, [f |-> f, err |-> err, ret |-> ret, from |-> pos,
                             to |-> to])
    /\ pos' = to
    /\ rd' = r
    /\ nextCalls' = nextCalls + 1
    /\ UNCHANGED <<plan, input, rdecomp, lastRead, regVars, poolVars>>

\* one iteration of the signature loop (reader.go:52-67), with what follows
\* the loop when the iteration breaks out of it (reader.go:69-90)
SignatureIteration ==
    /\ lastNext.ret = SignatureLoop
    /\ nextCalls < MaxSteps
    /\ IF LeavesLoop(pos)
       THEN IF ScanSignature(pos).kind = "dir"
            THEN StepTo(NilHeader, NoErr, RecordLoop, rd, pos)
            ELSE \E x \in {NextSignature(rd, ScanSignature(pos), rdecomp, decompressors)} :
                    StepTo(x.f, x.err, x.ret, x.rd, x.pos)
       ELSE StepTo(NilHeader, NoErr, SignatureLoop, rd, Discard(pos, 1).pos)

\* one iteration of the record loop (centralDirectory.go:16-42)
RecordIteration ==
    /\ lastNext.ret = RecordLoop
    /\ nextCalls < MaxSteps
    /\ \E it \in {DirectoryIteration(pos)} :
          StepTo(NilHeader, it.err, it.ret, rd, it.pos)

SkipNext == SignatureIteration \/ RecordIteration

SkipSpec == SkipInit /\ [][SkipNext]_vars

\* ------------------------------------------------------------------------
\* What the plan says the input holds (ghost; the code never reads it)
\* ------------------------------------------------------------------------
EndOfArchiveRet == "centralDirectory.go:30"

\* the metadata f is that of the entry e
IsEntry(f, e) ==
    /\ f # NilHeader
    /\ f.Name = e.name
    /\ f.Method = e.method
    /\ f.CRC32 = CRC32(e.plain)
    /\ f.CompressedSize64 = LE64(Len(e.data))
    /\ f.UncompressedSize64 = LE64(Len(e.plain))

\* where the first archive starts and ends in the input
ArchiveStart == Len(plan.noise)
ArchiveEnd   == Len(plan.noise) + Len(FirstArchive(plan))
WholeArchive == plan.kind \in {"archive", "concat", "noise"}

\* the byte string b holds one of the two signatures Next looks for
RECURSIVE HasSignature(_)
HasSignature(b) ==
    /\ Len(b) >= 4
    /\ \/ Take(b, 4) = LE32(fileHeaderSignature)
       \/ Take(b, 4) = LE32(directoryHeaderSignature)
       \/ HasSignature(Drop(b, 1))

\* ------------------------------------------------------------------------
\* C1: for a well-formed archive of N entries followed by its central
\* directory, the first N Next calls return the entries' metadata in archive
\* order, whatever was read in between, and call N+1 returns io.EOF with no
\* metadata.
\* ------------------------------------------------------------------------
C1_NPlusOneCalls ==
    (plan.kind \in {"archive", "concat"}) =>
        \A k \in 1..Len(hist) :
            /\ k <= Len(plan.entries) =>
                   hist[k].err = NoErr /\ IsEntry(hist[k].f, plan.entries[k])
            /\ k = Len(plan.entries) + 1 =>
                   hist[k].err = EOF /\ hist[k].f = NilHeader

\* the same calls on archives of at least one entry, where the directory
\* starts with a directory header
NonEmptyArchiveCalls ==
    (plan.kind \in {"archive", "concat"} /\ Len(plan.entries) >= 1) =>
        \A k \in 1..Len(hist) :
            /\ k <= Len(plan.entries) =>
                   hist[k].err = NoErr /\ IsEntry(hist[k].f, plan.entries[k])
            /\ k = Len(plan.entries) + 1 =>
                   hist[k].err = EOF /\ hist[k].f = NilHeader
                   /\ hist[k].ret = EndOfArchiveRet

\* ------------------------------------------------------------------------
\* C2: with two archives back to back, the Next call that ends the first
\* archive stops exactly at the first byte of the second, and the call after
\* it returns the metadata of the second archive's first entry.
\* ------------------------------------------------------------------------
EndsFirstArchive(k) ==
    hist[k].ret = EndOfArchiveRet /\ hist[k].from < ArchiveEnd

C2_Concatenation ==
    (plan.kind = "concat" /\ Len(plan.entries2) >= 1) =>
        \A k \in 1..Len(hist) :
            EndsFirstArchive(k) =>
                /\ hist[k].to = ArchiveEnd
                /\ k < Len(hist) =>
                    /\ hist[k + 1].err = NoErr
                    /\ IsEntry(hist[k + 1].f, plan.entries2[1])
                    /\ hist[k + 1].to = ArchiveEnd + Len(LocalHeader(plan.entries2[1]))

C2_Witness ==
    /\ plan.kind = "concat" /\ Len(plan.entries2) >= 1
    /\ plan.comment # <<>>
    /\ Len(hist) = Len(plan.entries) + 2
    /\ EndsFirstArchive(Len(plan.entries) + 1)
    /\ IsEntry(lastNext.f, plan.entries2[1])

\* ------------------------------------------------------------------------
\* C3: once Next has returned io.EOF from the end of the central directory,
\* Buffered yields exactly the input bytes after the end record and its
\* comment, whatever records came before the end record and whatever was
\* read of the entries.
\* ------------------------------------------------------------------------
C3_Remainder ==
    (WholeArchive /\ lastNext.ret = EndOfArchiveRet /\ lastNext.from < ArchiveEnd) =>
        Buffered = Drop(Uncut(plan), ArchiveEnd)

C3_Witness ==
    /\ plan.kind = "archive" /\ plan.mix = <<"loc64", "end64">>
    /\ plan.comment # <<>> /\ Len(plan.trail) = MaxNoise
    /\ lastNext.ret = EndOfArchiveRet
    /\ Buffered = plan.trail

\* ------------------------------------------------------------------------
\* C4: K bytes holding neither signature before a valid local header are
\* skipped one by one: the first Next returns that header's metadata and has
\* consumed K + 30 + name length + extra length bytes.
\* ------------------------------------------------------------------------
C4_GarbagePreamble ==
    (plan.kind = "noise" /\ ~HasSignature(plan.noise) /\ Len(hist) >= 1) =>
        /\ hist[1].err = NoErr
        /\ IsEntry(hist[1].f, plan.entries[1])
        /\ hist[1].to = Len(plan.noise) + fileHeaderLen
                        + Len(hist[1].f.Name) + Len(hist[1].f.Extra)

C4_Witness ==
    /\ plan.kind = "noise" /\ Len(plan.noise) = MaxNoise
    /\ ~HasSignature(plan.noise)
    /\ nextCalls = 1 /\ lastNext.err = NoErr
    /\ lastNext.f.Extra # <<>>
    /\ pos = MaxNoise + fileHeaderLen + 1 + 20

\* ------------------------------------------------------------------------
\* C5: what Next returns when the input runs out before any signature is
\* found (reader.go:55) is never the value it returns at the end of an
\* archive, (nil, io.EOF).
\* ------------------------------------------------------------------------
C5_ExhaustionIsNotEndOfArchive ==
    (lastNext.ret = "reader.go:55") => <<lastNext.f, lastNext.err>> # <<NilHeader, EOF>>

\* ------------------------------------------------------------------------
\* C6: Next returns io.EOF only after the end record and its whole comment
\* were consumed; an input that ends between or inside the records of the
\* central directory gives an error that is not io.EOF.
\* ------------------------------------------------------------------------
InsideDirectory ==
    lastNext.ret \in {"centralDirectory.go:19", "centralDirectory.go:24",
                      "centralDirectory.go:28", "centralDirectory.go:33",
                      "centralDirectory.go:37"}

C6_EndOfArchiveOnlyAfterEndRecord ==
    (InsideDirectory \/ lastNext.ret = EndOfArchiveRet) =>
        (lastNext.err = EOF =>
            /\ lastNext.ret = EndOfArchiveRet
            /\ plan.kind \in {"trunc", "cutdir"} => lastNext.to = Len(Uncut(plan)))

\* ------------------------------------------------------------------------
\* What the history of registrations says (ghost)
\* ------------------------------------------------------------------------
\* the process-wide registrations of method m that stored
Wins(m) == {i \in DOMAIN regLog[<<0, m>>] : ~regLog[<<0, m>>][i].dup}
HasEntry(m) == m \in {Store, Deflate} \/ Wins(m) # {}
FirstEntry(m) ==
    IF m = Store THEN NopCloser
    ELSE IF m = Deflate THEN NewFlateReader
    ELSE regLog[<<0, m>>][CHOOSE i \in Wins(m) : \A j \in Wins(m) : i <= j].dcomp
ProcessWide(m) == IF HasEntry(m) THEN FirstEntry(m) ELSE Nil

\* what session s registered last for method m
LastOwn(s, m) ==
    IF regLog[<<s, m>>] = <<>> THEN Nil
    ELSE regLog[<<s, m>>][Len(regLog[<<s, m>>])].dcomp

\* ------------------------------------------------------------------------
\* C7: in any order of process-wide registrations and lookups, at most one
\* registration per method id stores and every other one panics, those for
\* the built-in ids 0 and 8 always; and a lookup of an id that has an entry
\* returns the constructor stored first.
\* ------------------------------------------------------------------------
C7_ProcessWideRegistry ==
    /\ \A m \in Methods : Cardinality(Wins(m)) <= 1
    /\ \A m \in Methods : \A i \in DOMAIN regLog[<<0, m>>] :
          (m \in {Store, Deflate} \/ \E j \in Wins(m) : j < i) =>
              regLog[<<0, m>>][i].dup
    /\ \A m \in Methods :
          HasEntry(m) =>
              /\ m \in DOMAIN decompressors
              /\ decompressors[m] = FirstEntry(m)
    /\ \A k \in DOMAIN lookLog :
          (lookLog[k].sess = 0 /\ HasEntry(lookLog[k].method)) =>
              lookLog[k].dcomp = FirstEntry(lookLog[k].method)

C7_Witness ==
    /\ Len(regLog[<<0, 12>>]) >= 2
    /\ ~regLog[<<0, 12>>][1].dup
    /\ regLog[<<0, 12>>][2].dup
    /\ regLog[<<0, 12>>][1].dcomp # regLog[<<0, 12>>][2].dcomp
    /\ Len(regLog[<<0, Deflate>>]) >= 1
    /\ regLog[<<0, Deflate>>][1].dup
    /\ lookLog # <<>>
    /\ lookLog[1].sess = 0 /\ lookLog[1].method = 12
    /\ lookLog[1].dcomp = regLog[<<0, 12>>][1].dcomp

\* ------------------------------------------------------------------------
\* C8: a session's lookup of method m returns the constructor that session
\* registered last for m, if it registered one, whether or not the
\* process-wide table has an entry for m, and the process-wide result
\* otherwise; a session-scoped registration never fails; each session's
\* table holds that session's registrations alone, and the process-wide
\* table and lookups are what the process-wide registrations alone make them.
\* ------------------------------------------------------------------------
C8_SessionOverride ==
    /\ \A k \in DOMAIN lookLog :
          LET l == lookLog[k] IN
          IF l.sess # 0 /\ LastOwn(l.sess, l.method) # Nil
          THEN l.dcomp = LastOwn(l.sess, l.method)
          ELSE l.dcomp = ProcessWide(l.method)
    /\ \A s \in Sessions, m \in Methods : \A i \in DOMAIN regLog[<<s, m>>] :
          ~regLog[<<s, m>>][i].dup
    /\ \A s \in Sessions, m \in Methods :
          IF regLog[<<s, m>>] = <<>>
          THEN m \notin DOMAIN sessTab[s]
          ELSE m \in DOMAIN sessTab[s] /\ sessTab[s][m] = LastOwn(s, m)
    /\ \A m \in Methods : decompressor(decompressors, m) = ProcessWide(m)

C8_Witness ==
    /\ Len(regLog[<<1, Deflate>>]) >= 2
    /\ regLog[<<1, Deflate>>][1].dcomp = "customA"
    /\ regLog[<<1, Deflate>>][2].dcomp = "customB"
    /\ lookLog # <<>>
    /\ lookLog[1].sess = 1 /\ lookLog[1].method = Deflate
    /\ lookLog[1].dcomp = "customB"
    /\ sessTab[2] = <<>>
    /\ decompressors = BuiltIns

\* ------------------------------------------------------------------------
\* C9: in any interleaving of newFlateReader, Read and Close, no decoder is
\* the fr of two un-closed pooledFlateReaders, no decoder is in the free
\* list while an un-closed pooledFlateReader has it, the free list holds no
\* decoder twice, and the Closes of one pooledFlateReader Put its decoder at
\* most once. A pooledFlateReader is un-closed while its fr is set and no
\* Close of it has reached the Put.
\* ------------------------------------------------------------------------
Unclosed(r) ==
    /\ fr[r] # 0
    /\ ~\E g \in Procs : tgt[g] = r /\ pc[g] = "close:nil"

C9_PoolExclusive ==
    /\ \A r1, r2 \in DOMAIN fr :
          (r1 # r2 /\ Unclosed(r1) /\ Unclosed(r2)) => fr[r1] # fr[r2]
    /\ \A r \in DOMAIN fr : Unclosed(r) => pool[fr[r]] = 0
    /\ \A g \in Procs, r \in DOMAIN fr :
          (pc[g] = "new" /\ got[g] # 0 /\ Unclosed(r)) => fr[r] # got[g]
    /\ \A i \in Instances : pool[i] <= 1
    /\ \A r \in DOMAIN fr : puts[r] <= 1

\* the decoder the first pooledFlateReader returned is out again with the
\* second one while a further Close of the first is under way
C9_Witness ==
    /\ Len(fr) = 2 /\ made = 1
    /\ fr[1] = 0 /\ puts[1] = 1 /\ closedDone[1]
    /\ fr[2] = 1 /\ Unclosed(2)
    /\ \E g \in Procs : pc[g] = "close:check" /\ tgt[g] = 1

\* ------------------------------------------------------------------------
\* C10: a Read that starts after a Close of its pooledFlateReader has
\* returned yields 0 bytes and the "Read after Close" error and never
\* enters the decoder; any Read that is inside the decoder is inside the
\* one its pooledFlateReader still has, which has not been Put and is not
\* in the free list; and a Read ends with what the decoder gave or with
\* that error.
\* ------------------------------------------------------------------------
C10_ReadAfterClose ==
    \A g \in Procs :
        /\ rret[g].afterClose =>
              /\ pc[g] \notin {"read:fr", "read:run"}
              /\ rret[g].n = 0
              /\ rret[g].err \in {"pending", ErrReadAfterClose}
        /\ pc[g] = "read:run" =>
              /\ fr[tgt[g]] = got[g]
              /\ puts[tgt[g]] = 0
              /\ pool[got[g]] = 0
        /\ rret[g].err \in {"pending", NoErr, EOF, ErrReadAfterClose}
        /\ rret[g].err = ErrReadAfterClose => rret[g].n = 0

\* one goroutine's Read got bytes from the decoder, and another's, started
\* after the Close, got the error
C10_Witness ==
    \E g, h \in Procs :
        /\ rret[g] = [n |-> 1, err |-> NoErr, afterClose |-> FALSE]
        /\ rret[h] = [n |-> 0, err |-> ErrReadAfterClose, afterClose |-> TRUE]
        /\ pc[g] = "idle" /\ pc[h] = "idle"

\* ------------------------------------------------------------------------
\* What the plan says the header holds (ghost)
\* ------------------------------------------------------------------------
\* the records the walk reaches: those before a record that declares more
\* than is left
ReachedRecords(recs) ==
    SelectSeq(recs, LAMBDA rec : rec.size = Len(rec.payload))
\* the payload of the first ZIP64 record reached, if any
Zip64Payloads ==
    LET z == SelectSeq(ReachedRecords(plan.recs), LAMBDA rec : rec.tag = zip64ExtraID)
    IN IF z = <<>> THEN <<>> ELSE <<z[1].payload>>
\* where the compressed size sits in that payload
CSizeOffset == IF plan.usize32 = MaxU32 THEN 8 ELSE 0

SizesUnresolved ==
    \/ /\ plan.usize32 = MaxU32
       /\ Zip64Payloads # <<>>
       /\ Len(Zip64Payloads[1]) < 8
    \/ /\ plan.csize32 = MaxU32
       /\ \/ Zip64Payloads = <<>>
          \/ Len(Zip64Payloads[1]) < CSizeOffset + 8

\* ------------------------------------------------------------------------
\* C11: the 64-bit sizes Next reports are the header's 32-bit values unless
\* a value is 0xFFFFFFFF, in which case it is the 8 bytes the first ZIP64
\* record holds for it (uncompressed first, compressed next); no other
\* record changes a size; and a compressed size of 0xFFFFFFFF that no ZIP64
\* record resolves makes the call fail with zip.ErrFormat.
\* ------------------------------------------------------------------------
C11_DeferredSizes ==
    (plan.kind = "header" /\ Len(hist) >= 1) =>
        IF SizesUnresolved
        THEN hist[1].err = ErrFormat /\ hist[1].f = NilHeader
        ELSE /\ hist[1].err = NoErr
             /\ hist[1].f.UncompressedSize64 =
                    (IF plan.usize32 = MaxU32 /\ Zip64Payloads # <<>>
                     THEN Take(Zip64Payloads[1], 8)
                     ELSE Widen(plan.usize32))
             /\ hist[1].f.CompressedSize64 =
                    (IF plan.csize32 = MaxU32
                     THEN SubSeq(Zip64Payloads[1], CSizeOffset + 1, CSizeOffset + 8)
                     ELSE Widen(plan.csize32))

C11_Witness ==
    /\ plan.kind = "header"
    /\ plan.usize32 = MaxU32 /\ plan.csize32 = MaxU32
    /\ Len(plan.recs) = 2
    /\ plan.recs[1].payload = LE64(6) \o LE64(2)
    /\ plan.recs[2].payload = LE64(7) \o LE64(1) \o LE64(4)
    /\ Len(hist) >= 1
    /\ hist[1].f # NilHeader
    /\ hist[1].f.UncompressedSize64 = LE64(6)
    /\ hist[1].f.CompressedSize64 = LE64(2)

\* the position after the header of the entry whose pipeline r.Reader is:
\* that of the last call of Next that returned an entry
LastOpened ==
    hist[CHOOSE i \in 1..Len(hist) :
             /\ hist[i].err = NoErr
             /\ \A j \in (i + 1)..Len(hist) : hist[j].err # NoErr].to

\* the descriptor's three fields, w bytes after the data forwarded
WindowAfter(w) ==
    SubSeq(input, LastOpened + rd.n + w - 11, LastOpened + rd.n + w)

\* the view ended the entry on a descriptor of w bytes
EndedOn(w) ==
    /\ LastOpened + rd.n + w <= Len(input)
    /\ w = 16 => SubSeq(input, LastOpened + rd.n + 1, LastOpened + rd.n + 4)
                     = LE32(dataDescriptorSignature)
    /\ SubSeq(WindowAfter(w), 1, 4)
           = CRC32(SubSeq(input, LastOpened + 1, LastOpened + rd.n))
    /\ SubSeq(WindowAfter(w), 5, 8) = LE32(rd.n)
    /\ rd.crc = SubSeq(WindowAfter(w), 1, 4)
    /\ rd.csize = Widen(SubSeq(WindowAfter(w), 5, 8))
    /\ rd.usize = Widen(SubSeq(WindowAfter(w), 9, 12))
    /\ lastNext.err = NoErr => pos = LastOpened + rd.n + w

\* ------------------------------------------------------------------------
\* C12: the pipeline of an entry with flag 0x8 reports the end of the entry
\* only where the 12 bytes that follow the data forwarded (after the
\* signature, when it is there) declare the CRC32 of that data and its
\* length; the descriptor, 12 or 16 bytes, is then consumed and the
\* entry's CRC32 and sizes are the descriptor's. Until then the header's
\* zeros stay and nothing but the data forwarded is consumed.
\* ------------------------------------------------------------------------
C12_DescriptorBoundary ==
    (rd.open /\ rd.desc) =>
        /\ lastRead.err = EOF => rd.veof
        /\ (lastNext.err # NoErr /\ lastNext.ret # "reader.go:48") => rd.veof
        /\ rd.veof => EndedOn(12) \/ EndedOn(16)
        /\ ~rd.veof =>
              /\ rd.crc = LE32(0) /\ rd.csize = LE64(0) /\ rd.usize = LE64(0)
              /\ pos = LastOpened + rd.n

\* an entry read to its end on a descriptor without the signature, and one
\* read to its end on a descriptor with it
C12_Witness ==
    /\ plan.kind = "desc" /\ ~plan.sig /\ plan.data = <<80, 75, 7, 8>>
    /\ rd.open /\ rd.desc /\ rd.veof
    /\ lastRead.err = EOF
    /\ rd.n = 4 /\ rd.crc = CRC32(plan.data) /\ rd.usize = LE64(4)
    /\ pos = LastOpened + 16


\* the call of Next that reaches the plan's header, where the header starts
\* and where its data starts
HeaderCall == IF plan.first THEN 2 ELSE 1
HeaderStarts == Len(MethodLead(plan))
DataStarts ==
    HeaderStarts + fileHeaderLen + Len(plan.hdr.name) + Len(ExtraBytes(plan.hdr.recs))
Unregistered(method) ==
    method \notin DOMAIN rdecomp /\ method \notin DOMAIN decompressors

\* r.Reader is not a pipeline of the plan's header: it is what it was
\* before the call, nothing or the drained pipeline of the entry before
NoPipelineOpened ==
    IF plan.first
    THEN rd.open /\ rd.crc = CRC32(StoreEntry.plain) /\ rd.N = 0
    ELSE rd = NoReader

\* ------------------------------------------------------------------------
\* C13: the call of Next that reaches a local header whose method is in
\* neither table returns zip.ErrAlgorithm and no header, leaves r.Reader as
\* it was and has consumed the input up to the first data byte of the
\* entry, so that Buffered starts with the entry's data; a header whose
\* method is in either table yields the entry.
\* ------------------------------------------------------------------------
C13_UnsupportedMethod ==
    (plan.kind = "method" /\ Len(hist) >= HeaderCall) =>
        IF Unregistered(plan.hdr.method)
        THEN /\ hist[HeaderCall].err = ErrAlgorithm
             /\ hist[HeaderCall].f = NilHeader
             /\ hist[HeaderCall].to = DataStarts
             /\ Len(hist) = HeaderCall =>
                    /\ Buffered = HeaderData \o MethodTail
                    /\ NoPipelineOpened
        ELSE /\ hist[HeaderCall].err = NoErr
             /\ hist[HeaderCall].f # NilHeader
             /\ hist[HeaderCall].f.Method = plan.hdr.method

C13_Witness ==
    /\ plan.kind = "method" /\ plan.first /\ plan.hdr.method = 12
    /\ Len(plan.noise) = 2 /\ plan.hdr.recs # <<>>
    /\ Unregistered(12)
    /\ Len(hist) = 2
    /\ hist[2].err = ErrAlgorithm
    /\ Buffered = HeaderData \o MethodTail
    /\ lastRead.err = EOF


\* what a call of Next does on a session that holds no pipeline
FreshNext(p) == NextResult(NoReader, rdecomp, decompressors, p)
Failure(err) == err # NoErr /\ err # EOF

\* ------------------------------------------------------------------------
\* C14: a call of Next that follows a failed call of Next returns what a
\* session without history returns on the bytes still unconsumed: the same
\* header or error, having consumed the same bytes.
\* ------------------------------------------------------------------------
C14_FailureNotRetained ==
    \A i \in 2..Len(hist) :
        Failure(hist[i - 1].err) =>
            /\ hist[i].err = FreshNext(hist[i].from).err
            /\ hist[i].f = FreshNext(hist[i].from).f
            /\ hist[i].to = FreshNext(hist[i].from).pos


\* ------------------------------------------------------------------------
\* C15: Read reports the end of an entry, and Next gets past draining it,
\* only when the fixed-length view has delivered all the compressed bytes
\* the header declares (N, what the view may still deliver, is zero).
\* ------------------------------------------------------------------------
C15_NoSilentTruncation ==
    (rd.open /\ ~rd.desc) =>
        /\ lastRead.err = EOF => rd.N = 0
        /\ (Len(hist) >= 2 /\ hist[2].ret # "reader.go:48") => rd.N = 0


\* the pipeline r is at the end of its entry: a Read of it delivers nothing
\* and reports io.EOF
AtEndOfEntry(r, p) ==
    /\ CrcRead(r, p, 1).err = EOF
    /\ CrcRead(r, p, 1).b = <<>>
    /\ CrcRead(r, p, 1).pos = p

\* ------------------------------------------------------------------------
\* C16: the session holds one pipeline at most (r.Reader is its only one),
\* and a call of Next made while it holds one first reads that pipeline to
\* its end. If that fails, Next returns the failure and no header, the
\* input stands where the drain left it and r.Reader is still the old
\* pipeline. If it succeeds and Next returns an entry, the old pipeline was
\* at the end of its entry before the header was looked for, and r.Reader
\* is the new entry's pipeline alone.
\* ------------------------------------------------------------------------
C16_OnePipeline ==
    [][(nextCalls' = nextCalls + 1 /\ rd.open) =>
          IF Drain(rd, pos).err # NoErr
          THEN /\ lastNext'.err = Drain(rd, pos).err
               /\ lastNext'.f = NilHeader
               /\ pos' = Drain(rd, pos).pos
               /\ rd' = Drain(rd, pos).rd
          ELSE /\ AtEndOfEntry(Drain(rd, pos).rd, Drain(rd, pos).pos)
               /\ lastNext'.err = NoErr =>
                     /\ lastNext'.to >= Drain(rd, pos).pos + fileHeaderLen
                     /\ rd' = NewPipeline(lastNext'.f, rd'.dcomp)
               /\ lastNext'.err # NoErr => rd' = Drain(rd, pos).rd]_vars

\* a second entry opened after the first was drained, then a call that
\* failed draining the second
C16_Witness ==
    /\ plan.kind = "method" /\ plan.first /\ plan.hdr.method = Deflate
    /\ Len(hist) = 3
    /\ hist[1].err = NoErr /\ hist[2].err = NoErr
    /\ hist[3].ret = "reader.go:48" /\ hist[3].err = ErrCorrupt
    /\ hist[3].to = DataStarts + Len(HeaderData)
    /\ pos = hist[3].to
    /\ rd.open /\ rd.fin = ErrCorrupt


\* the steps of the record loop that met the plan's ZIP64 end record
At64End(i) ==
    /\ plan.kind = "skip"
    /\ hist[i].from = Len(SkipLead(plan))
    /\ i > 1
    /\ hist[i - 1].ret = RecordLoop

\* 12 + v exceeds 2^31 - 1, v read as the unsigned 64-bit number it is
ExceedsBound(v) ==
    \/ ~AllZero(Drop(v, 4))
    \/ v[4] >= 128
    \/ v[4] = 127 /\ v[3] = 255 /\ v[2] = 255 /\ v[1] >= 244

\* ------------------------------------------------------------------------
\* C17: on a ZIP64 end record whose remaining size v makes 12 + v exceed
\* 2^31 - 1 the skipper returns an error with no byte of the record
\* discarded; on any other it discards 12 + v bytes (all that is left, with
\* io.EOF, when the input is shorter).
\* ------------------------------------------------------------------------
C17_SizeBound ==
    \A i \in 1..Len(hist) :
        At64End(i) =>
            IF ExceedsBound(plan.v)
            THEN /\ hist[i].ret = "centralDirectory.go:33"
                 /\ hist[i].err = ErrSizeOverflow
                 /\ hist[i].to = hist[i].from
            ELSE IF Small(plan.v) + 12 <= Len(input) - hist[i].from
            THEN hist[i].err = NoErr /\ hist[i].to = hist[i].from + 12 + Small(plan.v)
            ELSE hist[i].err = EOF /\ hist[i].to = Len(input)

\* ------------------------------------------------------------------------
\* C18: every iteration of the signature loop and of the record loop that
\* does not return has consumed at least one byte of the input (the
\* iteration of the signature loop that calls the skipper aside: the call
\* returns from Next whatever the skipper returns).
\* ------------------------------------------------------------------------
C18_IterationsProgress ==
    \A i \in 1..Len(hist) :
        hist[i].ret \in {SignatureLoop, RecordLoop} =>
            \/ hist[i].to > hist[i].from
            \/ /\ hist[i].ret = RecordLoop
               /\ (i = 1 \/ hist[i - 1].ret = SignatureLoop)
               /\ LeavesLoop(hist[i].from)


\* ------------------------------------------------------------------------
\* C19: while the session is not in an entry (no call of Next yet, or the
\* last call returned no entry), Read delivers no byte and returns an error
\* or the end of the entry; it does not panic.
\* ------------------------------------------------------------------------
C19_ReadOutsideEntry ==
    lastNext.f = NilHeader =>
        /\ lastRead.n = 0
        /\ lastRead.err # PanicNilReader

\* ------------------------------------------------------------------------
\* C20: for every local header Next returns, the zone of Modified is exactly
\* UTC if and only if the extras walk took no modify time (NTFS attribute 1,
\* Unix / Info-ZIP Unix, extended timestamp with bit 0); and whenever it
\* took one, the zone is a fixed offset that is a multiple of 15 minutes in
\* [-12h, +14h], whatever the DOS date and time fields are.
\* ------------------------------------------------------------------------
\* the extras walk of a returned header took a modify time
ModifyTimeFound(f) ==
    parseExtras(f.Extra, ExtrasStart(f.CompressedSize, f.UncompressedSize)).found

QuarterHourZone(loc) ==
    /\ ~loc.utc
    /\ loc.offset % 900 = 0
    /\ loc.offset >= 0 - 12 * 3600
    /\ loc.offset <= 14 * 3600

C20_ZoneTellsExtraTime ==
    \A i \in 1..Len(hist) :
        (hist[i].err = NoErr /\ hist[i].f # NilHeader) =>
            /\ (hist[i].f.Modified.loc = UTC) <=> ~ModifyTimeFound(hist[i].f)
            /\ ModifyTimeFound(hist[i].f) => QuarterHourZone(hist[i].f.Modified.loc)

\* ------------------------------------------------------------------------
\* C21: whatever the extra field holds, the walk makes no read beyond the
\* bytes left in the record it is in; a record that declares more than is
\* left ends the walk without failing the parse; and the header fails only
\* with zip.ErrFormat, for a ZIP64 record shorter than the sizes it must
\* supply (or, after the walk, a compressed size that no record supplied).
\* ------------------------------------------------------------------------
LastRecord == plan.recs[Len(plan.recs)]
\* the last record declares more than the extra field still holds
DeclaresTooMuch == LastRecord.size > Len(LastRecord.payload) + Len(plan.tail)
TailRecord == ExtraRecord(ExtTimeRecord(1, DosEpochUnix + 7200))
TailReached == plan.tail = TailRecord /\ ~DeclaresTooMuch
Zip64TooShort ==
    /\ Zip64Payloads # <<>>
    /\ \/ plan.usize32 = MaxU32 /\ Len(Zip64Payloads[1]) < 8
       \/ plan.csize32 = MaxU32 /\ Len(Zip64Payloads[1]) < CSizeOffset + 8
\* reader.go:246: checked after the walk
CSizeNeverSupplied == plan.csize32 = MaxU32 /\ Zip64Payloads = <<>>

C21_BoundedWalk ==
    (plan.kind = "walk" /\ Len(hist) >= 1) =>
        /\ hist[1].err \in {NoErr, ErrFormat}
        /\ hist[1].err = ErrFormat <=> (Zip64TooShort \/ CSizeNeverSupplied)
        /\ hist[1].err = NoErr =>
              /\ hist[1].f.Extra = ExtraBytes(plan.recs) \o plan.tail
              /\ TailReached <=>
                    hist[1].f.Modified.t = UnixTime(LE32(DosEpochUnix + 7200))

\* an extended-timestamp record declaring 64 bytes with 8 there, followed by
\* the bytes of a record: the header is returned and no time was taken
C21_Witness ==
    /\ plan.kind = "walk" /\ Len(hist) >= 1
    /\ plan.recs = <<Declaring(extTimeExtraID, Oversize,
                               <<1>> \o LE32(DosEpochUnix) \o <<0, 0, 0>>)>>
    /\ plan.tail = TailRecord
    /\ hist[1].err = NoErr
    /\ hist[1].f.Modified.loc = UTC

====
